---- MODULE Spec2Model ----
(***************************************************************************)
(* A model of the analytics pipeline of pintar-ekspor (backend/app):       *)
(* upload parser, cleaner, transformer, statistics engine and the numeric  *)
(* sanitizers that are copied into each of them.                           *)
(*                                                                         *)
(* Numbers.  A Python/numpy float is modelled as a record                  *)
(*     [k |-> "fin", v |-> n]   a finite float, n in fixed-point units     *)
(*     [k |-> "nan", v |-> 0]   NaN                                        *)
(*     [k |-> "+inf", v |-> 0], [k |-> "-inf", v |-> 0]                    *)
(* and Python's None as [k |-> "none", v |-> 0].  One model unit is        *)
(* 1/Scale, so the float 1.0 is Fin(Scale).  The finite floats are the     *)
(* integers of magnitude at most FloatMax (the model's DBL_MAX); an        *)
(* operation whose exact result is larger gives an infinity, as IEEE       *)
(* arithmetic does.  MaxValue is the sanitizers' limit 1e308: like 1e308   *)
(* and DBL_MAX (about 1.797e308) it lies below FloatMax in the ratio       *)
(* 1000 : 1797, so finite floats above the limit exist.                    *)
(***************************************************************************)
EXTENDS Integers, Sequences, FiniteSets, TLC

VARIABLES
    sanIn,      \* the Python value handed to a sanitizer
    sanOut,     \* who sanitized it, and the outcome
    cIn,        \* the frame handed to the cleaner
    cOut,       \* what clean_pair made of cIn
    cOut2,      \* what clean_pair made of the frame of cOut
    hoOut,      \* what _handle_outliers made of cIn
    upload,     \* the rows of an uploaded file
    pairs,      \* what the parser made of the upload
    cleaned,    \* what clean_pairs made of pairs
    aIn,        \* the frame handed to the statistics engine
    aFc,        \* include_forecast
    aOut,       \* what analyze_pair made of aIn
    bIn,        \* the dictionary of frames handed to the batch operations
    bFc,        \* include_forecast of the batch analysis
    bClean,     \* what clean_pairs made of bIn
    bTrans,     \* what transform_pairs made of bIn
    bAnal,      \* what analyze_pairs made of bIn
    tOut,       \* what transform_pair made of aIn
    services,   \* the configuration of the module-level service instances
    auditLog,   \* the number of entries of the audit log
    rq,         \* a request to /analyze
    qk,         \* a request to /quick-analysis
    gIn,        \* the frame handed to _calculate_growth_metrics
    gOut,       \* the growth metrics of gIn
    chIn,       \* the frame handed to the chart generator
    chOut,      \* the points _prepare_time_series made of chIn
    csIn,       \* the analysis results handed to the chart generator
    csOut       \* the category strength chart of csIn

\* ------------------------------------------------------------ floats

\* fixed-point units per 1.0: 64 keeps two rounds of quartile arithmetic
\* exact, 25 makes 0.01 and 0.05 representable
Scale == 64 * 25

\* the largest finite float of the model (DBL_MAX)
FloatMax == 1797000000

\* numeric_limits.max_value = 1e308, in the ratio 1000 : 1797 to FloatMax
MaxValue == 1000000000

Fin(n) == [k |-> "fin", v |-> n]
NaN == [k |-> "nan", v |-> 0]
PInf == [k |-> "+inf", v |-> 0]
NInf == [k |-> "-inf", v |-> 0]
None == [k |-> "none", v |-> 0]

IsFin(x) == x.k = "fin"
IsNone(x) == x.k = "none"

Abs(n) == IF n < 0 THEN -n ELSE n

\* np.isnan / np.isinf / abs on a float
NpIsnan(x) == x.k = "nan"
NpIsinf(x) == x.k \in {"+inf", "-inf"}
FAbs(x) == IF IsFin(x) THEN Fin(Abs(x.v)) ELSE IF NpIsinf(x) THEN PInf ELSE x

\* x > limit for a float x and a finite limit (False for NaN, as in IEEE)
FGtInt(x, limit) ==
    CASE x.k = "fin" -> x.v > limit
      [] x.k = "+inf" -> TRUE
      [] OTHER -> FALSE

\* ------------------------------------------------------------ float arithmetic

\* a magnitude beyond every finite float
Over == FloatMax + 1

\* x + y for magnitudes, Over once it passes FloatMax
SatAdd(x, y) ==
    IF x > FloatMax \/ y > FloatMax THEN Over
    ELSE IF x > FloatMax - y THEN Over
    ELSE x + y

\* the product of two natural numbers, Over once it passes FloatMax
SatMul(x, y) ==
    IF x = 0 \/ y = 0 THEN 0
    ELSE IF x > FloatMax \div y THEN Over
    ELSE x * y

\* |a * b| for two fixed-point magnitudes, rounded down to a unit
MulMag(a, b) ==
    LET qa == a \div Scale
        ra == a % Scale
        qb == b \div Scale
        rb == b % Scale
    IN  SatAdd(SatAdd(SatMul(SatMul(qa, qb), Scale), qa * rb),
               SatAdd(ra * qb, (ra * rb) \div Scale))

\* |a / b| for two fixed-point magnitudes, b > 0, rounded down to a unit
DivMag(a, b) ==
    LET q == a \div b
        r == a % b
        frac == IF r <= FloatMax \div Scale THEN (r * Scale) \div b
                ELSE ((r \div Scale) * Scale) \div (b \div Scale)
    IN  SatAdd(SatMul(q, Scale), frac)

Sign(n) == IF n < 0 THEN -1 ELSE 1
SignOf(x) == IF x.k = "-inf" \/ (x.k = "fin" /\ x.v < 0) THEN -1 ELSE 1
InfOf(sign) == IF sign < 0 THEN NInf ELSE PInf
\* the float of a signed magnitude: an infinity once the magnitude is Over
FloatOf(sign, mag) == IF mag > FloatMax THEN InfOf(sign) ELSE Fin(sign * mag)
IsZero(x) == x.k = "fin" /\ x.v = 0

FNeg(x) ==
    CASE x.k = "fin" -> Fin(-x.v)
      [] x.k = "+inf" -> NInf
      [] x.k = "-inf" -> PInf
      [] OTHER -> x

FAdd(x, y) ==
    CASE x.k = "nan" \/ y.k = "nan" -> NaN
      [] NpIsinf(x) /\ NpIsinf(y) -> IF x.k = y.k THEN x ELSE NaN
      [] NpIsinf(x) -> x
      [] NpIsinf(y) -> y
      [] OTHER ->
            IF Sign(x.v) = Sign(y.v)
            THEN FloatOf(Sign(x.v), SatAdd(Abs(x.v), Abs(y.v)))
            ELSE Fin(x.v + y.v)

FSub(x, y) == FAdd(x, FNeg(y))

FMul(x, y) ==
    CASE x.k = "nan" \/ y.k = "nan" -> NaN
      [] NpIsinf(x) \/ NpIsinf(y) ->
            IF IsZero(x) \/ IsZero(y) THEN NaN ELSE InfOf(SignOf(x) * SignOf(y))
      [] OTHER -> FloatOf(Sign(x.v) * Sign(y.v), MulMag(Abs(x.v), Abs(y.v)))

\* numpy division: x / 0 is an infinity, 0 / 0 and inf / inf are NaN
FDiv(x, y) ==
    CASE x.k = "nan" \/ y.k = "nan" -> NaN
      [] NpIsinf(x) -> IF NpIsinf(y) THEN NaN ELSE InfOf(SignOf(x) * SignOf(y))
      [] NpIsinf(y) -> Fin(0)
      [] IsZero(y) -> IF IsZero(x) THEN NaN ELSE InfOf(SignOf(x))
      [] OTHER -> FloatOf(Sign(x.v) * Sign(y.v), DivMag(Abs(x.v), Abs(y.v)))

\* the order of floats; every comparison with NaN is False
FLt(x, y) ==
    CASE x.k = "nan" \/ y.k = "nan" -> FALSE
      [] x.k = "-inf" -> y.k # "-inf"
      [] x.k = "+inf" -> FALSE
      [] y.k = "-inf" -> FALSE
      [] y.k = "+inf" -> TRUE
      [] OTHER -> x.v < y.v
FGt(x, y) == FLt(y, x)
FLe(x, y) == x.k # "nan" /\ y.k # "nan" /\ ~FLt(y, x)

\* the integer square root, by bisection of lo..hi
RECURSIVE ISqrtIn(_, _, _)
ISqrtIn(n, lo, hi) ==
    IF lo >= hi THEN lo
    ELSE LET mid == (lo + hi + 1) \div 2
         IN  IF mid <= n \div mid THEN ISqrtIn(n, mid, hi)
             ELSE ISqrtIn(n, lo, mid - 1)
ISqrt(n) == IF n <= 0 THEN 0 ELSE ISqrtIn(n, 0, n)

SqrtScale == 8 * 5

\* np.sqrt: NaN for a negative number
FSqrt(x) ==
    CASE x.k = "nan" \/ x.k = "-inf" -> NaN
      [] x.k = "+inf" -> PInf
      [] x.v < 0 -> NaN
      [] x.v <= FloatMax \div Scale -> Fin(ISqrt(x.v * Scale))
      [] OTHER -> Fin(ISqrt(x.v) * SqrtScale)

\* the float of a Python int count
FInt(n) == Fin(n * Scale)

\* ------------------------------------------------------------ sequences

Range(s) == {s[i] : i \in 1..Len(s)}
Last(s) == s[Len(s)]

\* F applied to x: a name for a value that is computed once
With(x, F(_)) == F(x)

RECURSIVE FSum(_)
FSum(s) == IF s = <<>> THEN Fin(0) ELSE FAdd(FSum(SubSeq(s, 1, Len(s) - 1)), Last(s))

\* the subsequence of the elements at the positions keep[i] = TRUE
RECURSIVE SelectAt(_, _)
SelectAt(s, keep) ==
    IF s = <<>> THEN <<>>
    ELSE LET rest == SelectAt(SubSeq(s, 1, Len(s) - 1), SubSeq(keep, 1, Len(s) - 1))
         IN  IF Last(keep) THEN Append(rest, Last(s)) ELSE rest

\* s with x inserted before the first element greater than x
RECURSIVE InsertSorted(_, _)
InsertSorted(s, x) ==
    IF s = <<>> THEN <<x>>
    ELSE IF FLt(x, Last(s)) THEN Append(InsertSorted(SubSeq(s, 1, Len(s) - 1), x), Last(s))
    ELSE Append(s, x)

RECURSIVE SortFloats(_)
SortFloats(s) ==
    IF s = <<>> THEN <<>>
    ELSE InsertSorted(SortFloats(SubSeq(s, 1, Len(s) - 1)), Last(s))

\* ------------------------------------------------------------ Python values

(***************************************************************************)
(* A Python value handed to a sanitizer: [t, n, s] with                    *)
(*   t = "none"                     None                                   *)
(*   t = "float", s = "fin"|"nan"|"+inf"|"-inf", n the finite value        *)
(*   t = "int", n the integer in model units; an int may exceed FloatMax   *)
(*   t = "str", s the text                                                 *)
(*   t = "list", s the text of the list                                    *)
(*   t = "object"                   any object without __float__           *)
(***************************************************************************)
PyNone == [t |-> "none", n |-> 0, s |-> ""]
PyFloatOf(x) == [t |-> "float", n |-> x.v, s |-> x.k]
PyInt(n) == [t |-> "int", n |-> n, s |-> ""]
PyStr(s) == [t |-> "str", n |-> 0, s |-> s]
PyList(s) == [t |-> "list", n |-> 0, s |-> s]
PyObject == [t |-> "object", n |-> 0, s |-> ""]

\* the float a value of type float holds
AsFloat(value) == [k |-> value.s, v |-> value.n]

\* the strings of the model that float() parses, and what it parses them to
NumericStrings == {"12.5", "-3", "0", "nan", "inf", "-inf", "1e400"}
ParseFloat(s) ==
    CASE s = "12.5" -> Fin((25 * Scale) \div 2)
      [] s = "-3" -> Fin(-3 * Scale)
      [] s = "0" -> Fin(0)
      [] s = "nan" -> NaN
      [] s = "inf" -> PInf
      [] s = "-inf" -> NInf
      [] s = "1e400" -> PInf

\* an outcome of a call: the exception that left it ("" if none) and the value
Returned(x) == [raised |-> "", val |-> x]
Raised(e) == [raised |-> e, val |-> None]

\* float(value): the converted float, or the exception float() raises
PyFloat(value) ==
    CASE value.t = "float" -> Returned(AsFloat(value))
      [] value.t = "int" ->
            IF Abs(value.n) > FloatMax THEN Raised("OverflowError")
            ELSE Returned(Fin(value.n))
      [] value.t = "str" ->
            IF value.s \in NumericStrings THEN Returned(ParseFloat(value.s))
            ELSE Raised("ValueError")
      [] OTHER -> Raised("TypeError")

(***************************************************************************)
(* The truth value of `pd.isna(value)` in an `if`: for a scalar it is the  *)
(* answer; for a list pd.isna returns an array, whose truth value is that  *)
(* of its only element, is False for the empty array, and raises           *)
(* ValueError for two or more elements.                                    *)
(***************************************************************************)
PdIsnaTruth(value) ==
    CASE value.t = "none" -> Returned(TRUE)
      [] value.t = "float" -> Returned(value.s = "nan")
      [] value.t = "list" ->
            CASE value.s = "[nan]" -> Returned(TRUE)
              [] value.s \in {"[]", "[1.0]"} -> Returned(FALSE)
              [] OTHER -> [raised |-> "ValueError", val |-> FALSE]
      [] OTHER -> Returned(FALSE)

\* ------------------------------------------------------------ sanitizers

\* the body the three _safe_numeric copies share; `caught` is the set of
\* exceptions their except clause names
SafeNumericBody(value, maxValue, caught) ==
    LET isna == PdIsnaTruth(value)
        conv == PyFloat(value)
        out ==
            IF isna.raised # "" THEN Raised(isna.raised)
            ELSE IF isna.val \/ value.t = "none" THEN Returned(None)
            ELSE IF conv.raised # "" THEN Raised(conv.raised)
            ELSE IF NpIsnan(conv.val) \/ NpIsinf(conv.val) THEN Returned(None)
            ELSE IF FGtInt(FAbs(conv.val), maxValue) THEN Returned(None)
            ELSE Returned(conv.val)
    IN  IF out.raised \in caught THEN Returned(None) ELSE out

\* DataTransformer._safe_numeric
DataTransformer_safe_numeric(value) ==
    SafeNumericBody(value, MaxValue, {"TypeError", "ValueError"})

\* DataAnalytics._safe_numeric
DataAnalytics_safe_numeric(value) ==
    SafeNumericBody(value, MaxValue, {"TypeError", "ValueError"})

\* DataExporter._safe_numeric
DataExporter_safe_numeric(value) ==
    SafeNumericBody(value, MaxValue, {"TypeError", "ValueError"})

\* ChartGenerator._sanitize_float
ChartGenerator_sanitize_float(value) ==
    LET conv == PyFloat(value)
    IN  CASE value.t \in {"int", "float"} ->
                \* an exception of float() reaches `except Exception`
                IF conv.raised # "" THEN Returned(None)
                ELSE IF NpIsnan(conv.val) THEN Returned(None)
                ELSE IF NpIsinf(conv.val) THEN Returned(None)
                ELSE IF FGtInt(FAbs(conv.val), MaxValue) THEN Returned(None)
                ELSE Returned(conv.val)
          [] value.t = "str" ->
                IF conv.raised # "" THEN Returned(None)
                ELSE IF NpIsnan(conv.val) THEN Returned(None)
                ELSE IF NpIsinf(conv.val) THEN Returned(None)
                ELSE IF FGtInt(FAbs(conv.val), MaxValue) THEN Returned(None)
                ELSE Returned(conv.val)
          [] OTHER -> Returned(None)

\* ------------------------------------------------------------ series

(***************************************************************************)
(* A series (a DataFrame indexed by date with a `value` column) is a       *)
(* sequence of rows [ts |-> date, value |-> float], in row order.  A       *)
(* missing value is NaN.                                                   *)
(***************************************************************************)
Row(ts, value) == [ts |-> ts, value |-> value]
ValuesOf(df) == [i \in 1..Len(df) |-> df[i].value]
IndexOf(df) == [i \in 1..Len(df) |-> df[i].ts]
WithValues(df, vals) == [i \in 1..Len(df) |-> Row(df[i].ts, vals[i])]

\* Series.isnull
IsNull(x) == x.k \in {"nan", "none"}
NullCount(vals) == Cardinality({i \in 1..Len(vals) : IsNull(vals[i])})

\* Series.ffill: a missing value takes the value before it
RECURSIVE Ffill(_)
Ffill(vals) ==
    IF vals = <<>> THEN <<>>
    ELSE LET head == Ffill(SubSeq(vals, 1, Len(vals) - 1))
         IN  IF IsNull(Last(vals)) /\ head # <<>> THEN Append(head, Last(head))
             ELSE Append(head, Last(vals))

\* Series.bfill: a missing value takes the value after it
RECURSIVE Bfill(_)
Bfill(vals) ==
    IF vals = <<>> THEN <<>>
    ELSE LET tail == Bfill(SubSeq(vals, 2, Len(vals)))
         IN  IF IsNull(vals[1]) /\ tail # <<>> THEN <<tail[1]>> \o tail
             ELSE <<vals[1]>> \o tail

\* Series.interpolate(method='linear'): rows count as equally spaced; a gap
\* between two values is filled on the line through them, a trailing gap
\* with the last value, and a leading gap is left missing
Interpolate(vals) ==
    [i \in 1..Len(vals) |->
        IF ~IsNull(vals[i]) THEN vals[i]
        ELSE LET before == {j \in 1..(i - 1) : ~IsNull(vals[j])}
                 after == {j \in (i + 1)..Len(vals) : ~IsNull(vals[j])}
             IN  IF before = {} THEN vals[i]
                 ELSE LET p == CHOOSE j \in before : \A l \in before : l <= j
                      IN  IF after = {} THEN vals[p]
                          ELSE LET q == CHOOSE j \in after : \A l \in after : j <= l
                               IN  FAdd(vals[p],
                                        FDiv(FMul(FSub(vals[q], vals[p]), FInt(i - p)),
                                             FInt(q - p)))]

\* Index.duplicated(keep='last'): True for every earlier row of a date
Duplicated_KeepLast(df) ==
    [i \in 1..Len(df) |-> \E j \in (i + 1)..Len(df) : df[j].ts = df[i].ts]

\* Index.duplicated(keep='first'): True for every later row of a date
Duplicated(df) ==
    [i \in 1..Len(df) |-> \E j \in 1..(i - 1) : df[j].ts = df[i].ts]

\* the quantile q of n values in ascending order, n > 0: linear
\* interpolation between the order statistics around position q * (n - 1)
QuantileAt(sorted, n, pos) ==
    IF pos.v \div Scale + 1 >= n THEN sorted[n]
    ELSE FAdd(sorted[pos.v \div Scale + 1],
              FMul(FSub(sorted[pos.v \div Scale + 2], sorted[pos.v \div Scale + 1]),
                   Fin(pos.v % Scale)))

QuantileOfSorted(sorted, q) ==
    IF sorted = <<>> THEN NaN
    ELSE QuantileAt(sorted, Len(sorted), FMul(q, FInt(Len(sorted) - 1)))

\* Series.quantile(q) of the values that are not missing
Quantile(vals, q) ==
    QuantileOfSorted(SortFloats(SelectAt(vals, [i \in 1..Len(vals) |-> ~IsNull(vals[i])])), q)

\* ------------------------------------------------------------ cleaner

\* DataCleaner.config
outlier_threshold == Fin((3 * Scale) \div 2)
\* max_missing_pct = 0.3, as the fraction max_missing_pct_num / max_missing_pct_den
max_missing_pct_num == 3
max_missing_pct_den == 10
min_records == 3

Quarter == Fin(Scale \div 4)
ThreeQuarters == Fin((3 * Scale) \div 4)

\* imputation without the final backward fill
handle_missing_values_NoBfill(df) ==
    WithValues(df, Interpolate(Ffill(ValuesOf(df))))

\* imputation with the backward fill before the forward fill
handle_missing_values_BfillFirst(df) ==
    WithValues(df, Ffill(Interpolate(Bfill(ValuesOf(df)))))

\* DataCleaner._handle_missing_values
handle_missing_values(df) ==
    WithValues(df, Bfill(Interpolate(Ffill(ValuesOf(df)))))

\* lower_bound and upper_bound of _handle_outliers from the quartiles
BoundsOf(Q1, Q3, IQR) ==
    [lower |-> FSub(Q1, FMul(outlier_threshold, IQR)),
     upper |-> FAdd(Q3, FMul(outlier_threshold, IQR))]

BoundsOfQuartiles(Q1, Q3) == BoundsOf(Q1, Q3, FSub(Q3, Q1))

\* the IQR bounds _handle_outliers computes for a frame
OutlierBounds(df) ==
    BoundsOfQuartiles(Quantile(ValuesOf(df), Quarter), Quantile(ValuesOf(df), ThreeQuarters))

\* the outliers of a frame: the rows below the lower or above the upper bound
Outliers(df, b) ==
    {i \in 1..Len(df) : FLt(df[i].value, b.lower) \/ FGt(df[i].value, b.upper)}

\* df.loc[df['value'] < lower_bound, 'value'] = lower_bound, then the same
\* with the upper bound
ClipTo(df, b) ==
    [df |-> [i \in 1..Len(df) |->
                Row(df[i].ts,
                    IF FLt(df[i].value, b.lower)
                    THEN (IF FGt(b.lower, b.upper) THEN b.upper ELSE b.lower)
                    ELSE IF FGt(df[i].value, b.upper) THEN b.upper ELSE df[i].value)],
     outlier_count |-> Cardinality(Outliers(df, b))]

\* the outliers counted and left as they are
handle_outliers_Keep(df) ==
    [df |-> df, outlier_count |-> Cardinality(Outliers(df, OutlierBounds(df)))]

\* DataCleaner._handle_outliers: the frame with the values outside the
\* bounds set to the bound, and their number
handle_outliers(df) == ClipTo(df, OutlierBounds(df))

NoMetrics ==
    [missing_count |-> 0, duplicate_count |-> 0, outlier_count |-> 0,
     total_records |-> 0, clean_records |-> 0]

CleanFailed(msg) == [ok |-> FALSE, err |-> msg, df |-> <<>>, metrics |-> NoMetrics]

\* what clean_pair returns: the clipped frame and the DataQualityMetrics
CleanResult(initial_records, missing_count, duplicate_count, clipped) ==
    [ok |-> TRUE, err |-> "", df |-> clipped.df,
     metrics |-> [missing_count |-> missing_count,
                  duplicate_count |-> duplicate_count,
                  outlier_count |-> clipped.outlier_count,
                  total_records |-> initial_records,
                  clean_records |-> Len(clipped.df)]]

\* df[~df.index.duplicated(keep='first')], then _handle_outliers
DropDuplicates(initial_records, missing_count, filled, dup) ==
    CleanResult(initial_records, missing_count,
                Cardinality({i \in 1..Len(filled) : dup[i]}),
                handle_outliers(SelectAt(filled, [i \in 1..Len(filled) |-> ~dup[i]])))

CleanFilled(initial_records, missing_count, filled) ==
    DropDuplicates(initial_records, missing_count, filled, Duplicated(filled))

\* the checks of clean_pair on the number of rows and of missing values
CheckedClean(df, missing_count) ==
    IF Len(df) < min_records THEN CleanFailed("Insufficient records")
    \* missing_count / len(df) > max_missing_pct
    ELSE IF missing_count * max_missing_pct_den > max_missing_pct_num * Len(df)
    THEN CleanFailed("Too many missing values")
    ELSE CleanFilled(Len(df), missing_count, handle_missing_values(df))

\* clean_pair with the missing values counted after the imputation
clean_pair_FillFirst(df) ==
    CheckedClean(df, NullCount(ValuesOf(handle_missing_values(df))))

\* DataCleaner.clean_pair: the cleaned frame and its DataQualityMetrics, or
\* the ValueError it raises
clean_pair(df) ==
    CheckedClean(df, NullCount(ValuesOf(df)))

\* ------------------------------------------------------------ numpy, pandas, sklearn

AllFinite(s) == \A i \in 1..Len(s) : IsFin(s[i])

\* np.mean, np.average, Series.mean: the sum over the count
Mean(vals) == FDiv(FSum(vals), FInt(Len(vals)))

\* Series.median: the middle value, or the mean of the two middle values
Median(vals) ==
    LET sorted == SortFloats(vals)
        n == Len(sorted)
    IN  IF n = 0 THEN NaN
        ELSE IF n % 2 = 1 THEN sorted[(n + 1) \div 2]
        ELSE FDiv(FAdd(sorted[n \div 2], sorted[n \div 2 + 1]), FInt(2))

\* the sum of the squared deviations from the mean
SumSqDev(vals) ==
    LET avg == Mean(vals)
    IN  FSum([i \in 1..Len(vals) |-> FMul(FSub(vals[i], avg), FSub(vals[i], avg))])

\* the standard deviation with ddof degrees of freedom removed:
\* Series.std has ddof = 1, np.std has ddof = 0
Std(vals, ddof) ==
    IF Len(vals) <= ddof THEN NaN
    ELSE FSqrt(FDiv(SumSqDev(vals), FInt(Len(vals) - ddof)))

\* Series.min / Series.max of values that are not missing
RECURSIVE FMin(_)
FMin(vals) ==
    IF Len(vals) = 1 THEN vals[1]
    ELSE LET m == FMin(SubSeq(vals, 1, Len(vals) - 1))
         IN  IF FLt(Last(vals), m) THEN Last(vals) ELSE m
RECURSIVE FMax(_)
FMax(vals) ==
    IF Len(vals) = 1 THEN vals[1]
    ELSE LET m == FMax(SubSeq(vals, 1, Len(vals) - 1))
         IN  IF FGt(Last(vals), m) THEN Last(vals) ELSE m

\* np.arange(a, b) as floats
Arange(a, b) == [i \in 1..(b - a) |-> FInt(a + i - 1)]

(***************************************************************************)
(* LinearRegression().fit(X, values) with X = np.arange(n): X and values   *)
(* are centred on their means and the least-squares slope of the centred   *)
(* data is solved for; scipy's lstsq raises ValueError if the centred      *)
(* values hold an infinity or a NaN (the mean overflowed).  A single point *)
(* has slope 0 (the minimum-norm solution).                                *)
(***************************************************************************)
LinearRegressionFit(values) ==
    LET n == Len(values)
        X == Arange(0, n)
        X_offset == Mean(X)
        y_offset == Mean(values)
        Xc == [i \in 1..n |-> FSub(X[i], X_offset)]
        yc == [i \in 1..n |-> FSub(values[i], y_offset)]
        Sxx == FSum([i \in 1..n |-> FMul(Xc[i], Xc[i])])
        Sxy == FSum([i \in 1..n |-> FMul(Xc[i], yc[i])])
        coef == IF IsZero(Sxx) THEN Fin(0) ELSE FDiv(Sxy, Sxx)
    IN  IF ~AllFinite(yc) THEN [raised |-> "ValueError", coef |-> NaN, intercept |-> NaN]
        ELSE [raised |-> "", coef |-> coef,
              intercept |-> FSub(y_offset, FMul(X_offset, coef))]

\* model.predict(X)
Predict(model, X) == [i \in 1..Len(X) |-> FAdd(FMul(X[i], model.coef), model.intercept)]

SqErrors(y, pred) ==
    [i \in 1..Len(y) |-> FMul(FSub(y[i], pred[i]), FSub(y[i], pred[i]))]

\* sklearn's r2_score (model.score): ValueError for a prediction that is not
\* finite, NaN for fewer than two samples, and for constant values 1.0 if the
\* prediction is exact and 0.0 otherwise
R2Score(y, pred) ==
    LET numerator == FSum(SqErrors(y, pred))
        denominator == SumSqDev(y)
    IN  IF ~AllFinite(pred) THEN Raised("ValueError")
        ELSE IF Len(y) < 2 THEN Returned(NaN)
        ELSE IF IsZero(denominator)
        THEN Returned(IF IsZero(numerator) THEN FInt(1) ELSE Fin(0))
        ELSE Returned(FSub(FInt(1), FDiv(numerator, denominator)))

\* sklearn's mean_absolute_error and mean_squared_error
MeanAbsoluteError(y, pred) ==
    IF ~AllFinite(pred) THEN Raised("ValueError")
    ELSE Returned(Mean([i \in 1..Len(y) |-> FAbs(FSub(y[i], pred[i]))]))
MeanSquaredError(y, pred) ==
    IF ~AllFinite(pred) THEN Raised("ValueError")
    ELSE Returned(Mean(SqErrors(y, pred)))

\* ------------------------------------------------------------ dictionaries

(***************************************************************************)
(* A Python dict is the sequence of its items [key, val] in insertion      *)
(* order, which is the order a loop over .items() visits them.             *)
(***************************************************************************)
DictKeys(d) == {d[i].key : i \in 1..Len(d)}
DictGet(d, k) == (CHOOSE e \in Range(d) : e.key = k).val
\* d[k] = v: a new key is appended, an old key keeps its place
DictSet(d, k, v) ==
    IF k \in DictKeys(d)
    THEN [i \in 1..Len(d) |-> IF d[i].key = k THEN [key |-> k, val |-> v] ELSE d[i]]
    ELSE Append(d, [key |-> k, val |-> v])

\* one turn of the loop of clean_pairs with a failure ending the batch
CleanItemOrAbort(done, pair_key, r) ==
    IF r.ok /\ r.df # <<>>
    THEN [cleaned_pairs |-> DictSet(done.cleaned_pairs, pair_key, r.df),
          quality_metrics |-> DictSet(done.quality_metrics, pair_key, r.metrics)]
    ELSE [cleaned_pairs |-> <<>>, quality_metrics |-> <<>>]

\* one turn of the loop of clean_pairs on the item (pair_key, df)
CleanItem(done, pair_key, r) ==
    IF r.ok /\ r.df # <<>>
    THEN [cleaned_pairs |-> DictSet(done.cleaned_pairs, pair_key, r.df),
          quality_metrics |-> DictSet(done.quality_metrics, pair_key, r.metrics)]
    ELSE done

\* DataCleaner.clean_pairs: the loop over the items; a frame whose clean_pair
\* raises is logged and skipped
RECURSIVE clean_pairs(_)
clean_pairs(pair_dataframes) ==
    IF pair_dataframes = <<>> THEN [cleaned_pairs |-> <<>>, quality_metrics |-> <<>>]
    ELSE CleanItem(clean_pairs(SubSeq(pair_dataframes, 1, Len(pair_dataframes) - 1)),
                   Last(pair_dataframes).key, clean_pair(Last(pair_dataframes).val))

\* ------------------------------------------------------------ upload parser

(***************************************************************************)
(* A row of an upload is [date, category, value]: the date as text, the    *)
(* category a cell [t, n, s] that is a string (t = "str", text s), an      *)
(* integer (t = "int", number n; JSON only) or missing (t = "nan").        *)
(***************************************************************************)
CatStr(s) == [t |-> "str", n |-> 0, s |-> s]
CatInt(n) == [t |-> "int", n |-> n, s |-> ""]
CatNaN == [t |-> "nan", n |-> 0, s |-> ""]

NaT == 0

\* the dates the model knows, in ascending order
DayTexts ==
    <<"2024-01-01", "2024-01-02", "2024-01-03", "2024-01-04", "2024-01-05", "2024-01-06",
      "2024-01-07", "2024-01-08", "2024-01-09", "2024-01-10", "2024-01-11">>

\* pd.to_datetime(text, errors='coerce'): the day of the date, NaT if the
\* text is no date
to_datetime(text) ==
    IF \E d \in 1..Len(DayTexts) : DayTexts[d] = text
    THEN CHOOSE d \in 1..Len(DayTexts) : DayTexts[d] = text
    ELSE NaT

\* str(n) for the integers of the model
DecimalText(n) ==
    CASE n = 0 -> "0"
      [] n = 1 -> "1"
      [] n = 2 -> "2"
      [] OTHER -> "?"

\* f"category_{category}"
CategoryKey(category) ==
    "category_" \o (CASE category.t = "str" -> category.s
                      [] category.t = "int" -> DecimalText(category.n)
                      [] OTHER -> "nan")

\* df['category'] == category, row by row: a missing category equals nothing
CategoryEq(a, b) == a.t # "nan" /\ b.t # "nan" /\ a = b

\* Series.unique: the distinct values in order of first appearance
RECURSIVE Unique(_)
Unique(s) ==
    IF s = <<>> THEN <<>>
    ELSE LET head == Unique(SubSeq(s, 1, Len(s) - 1))
         IN  IF Last(s) \in Range(head) THEN head ELSE Append(head, Last(s))

\* DataHandler._process_standard_format
process_standard_format(rows) ==
    LET parsed == [i \in 1..Len(rows) |->
                       [date |-> to_datetime(rows[i].date),
                        category |-> rows[i].category, value |-> rows[i].value]]
        df == SelectAt(parsed, [i \in 1..Len(rows) |-> parsed[i].date # NaT])
        categories == Unique([i \in 1..Len(df) |-> df[i].category])
        category_df(category) ==
            LET rowsOf == SelectAt(df, [i \in 1..Len(df) |->
                                            CategoryEq(df[i].category, category)])
            IN  [i \in 1..Len(rowsOf) |-> Row(rowsOf[i].date, rowsOf[i].value)]
        Split[k \in 0..Len(categories)] ==
            IF k = 0 THEN <<>>
            ELSE DictSet(Split[k - 1], CategoryKey(categories[k]),
                         category_df(categories[k]))
    IN  Split[Len(categories)]

\* ------------------------------------------------------------ statistics engine

\* DataAnalytics.config
forecast_days == 30
min_points == 10
growth_windows == <<7, 30>>
significant_change == Fin(Scale \div 100)

\* a float or None as the Python value a sanitizer is handed
PyOf(x) == IF IsNone(x) THEN PyNone ELSE PyFloatOf(x)

\* DataAnalytics._safe_numeric on a float or None (float() cannot fail there)
StatSafe(x) == DataAnalytics_safe_numeric(PyOf(x)).val

\* DataAnalytics._safe_division
DataAnalytics_safe_division(numerator, denominator) ==
    IF IsZero(denominator) THEN None
    ELSE StatSafe(FDiv(numerator, denominator))

\* Series.apply(_safe_numeric) followed by dropna(subset=['value'])
SanitizedRows(df) ==
    LET safe == [i \in 1..Len(df) |-> StatSafe(df[i].value)]
    IN  SelectAt(WithValues(df, safe), [i \in 1..Len(df) |-> ~IsNull(safe[i])])

\* _calculate_basic_stats with the raw standard deviation stored
calculate_basic_stats_RawStd(df) ==
    LET values == ValuesOf(df)
    IN  [mean |-> StatSafe(Mean(values)),
         median |-> StatSafe(Median(values)),
         std |-> Std(values, 1),
         min |-> StatSafe(FMin(values)),
         max |-> StatSafe(FMax(values)),
         last_value |-> StatSafe(Last(values))]

\* DataAnalytics._calculate_basic_stats
calculate_basic_stats(df) ==
    LET values == ValuesOf(df)
    IN  IF values = <<>>
        THEN [mean |-> None, median |-> None, std |-> None,
              min |-> None, max |-> None, last_value |-> None]
        ELSE [mean |-> StatSafe(Mean(values)),
              median |-> StatSafe(Median(values)),
              std |-> StatSafe(Std(values, 1)),
              min |-> StatSafe(FMin(values)),
              max |-> StatSafe(FMax(values)),
              last_value |-> StatSafe(Last(values))]

TrendFailed ==
    [direction |-> "unknown", slope |-> None, strength |-> None,
     significant |-> FALSE, trend_values |-> <<>>]

\* a classification by the sign of the slope alone
TrendDirection_BySign(slope, relative_slope) ==
    IF IsNone(relative_slope) THEN "unknown"
    ELSE IF FGt(slope, Fin(0)) THEN "increasing" ELSE "decreasing"

\* the direction _analyze_trend reports
TrendDirection(slope, relative_slope) ==
    IF IsNone(relative_slope) THEN "unknown"
    ELSE IF FLt(FAbs(relative_slope), significant_change) THEN "stable"
    ELSE IF FGt(slope, Fin(0)) THEN "increasing" ELSE "decreasing"

\* DataAnalytics._analyze_trend
analyze_trend(df) ==
    With(ValuesOf(df), LAMBDA values :
    With(LinearRegressionFit(values), LAMBDA model :
    With(StatSafe(model.coef), LAMBDA slope :
    With(Predict(model, Arange(0, Len(values))), LAMBDA predicted :
    With(R2Score(values, predicted), LAMBDA score :
    With(IF IsNone(slope) THEN None
         ELSE DataAnalytics_safe_division(slope, Mean(values)), LAMBDA relative_slope :
        IF model.raised # "" \/ score.raised # "" THEN TrendFailed
        ELSE [direction |-> TrendDirection(slope, relative_slope),
              slope |-> slope,
              strength |-> StatSafe(score.val),
              significant |-> ~IsNone(relative_slope)
                                /\ ~FLt(FAbs(relative_slope), significant_change),
              trend_values |-> [i \in 1..Len(predicted) |-> StatSafe(predicted[i])]]))))))

\* the growth from start to end that _calculate_growth_metrics stores
Growth(start, end) ==
    IF ~IsNone(start) /\ ~IsNone(end)
    THEN DataAnalytics_safe_division(FSub(end, start), start)
    ELSE None

\* the text of a growth window
WindowKey(window) == IF window = 7 THEN "7d_growth" ELSE "30d_growth"

\* DataAnalytics._calculate_growth_metrics: a dict with total_growth and one
\* key per window the frame is long enough for
calculate_growth_metrics(df) ==
    LET values == ValuesOf(df)
        n == Len(values)
        first_value == StatSafe(values[1])
        last_value == StatSafe(values[n])
        total == <<[key |-> "total_growth", val |-> Growth(first_value, last_value)]>>
        Windows[k \in 0..Len(growth_windows)] ==
            IF k = 0 THEN total
            ELSE LET window == growth_windows[k]
                 IN  IF n >= window
                     THEN DictSet(Windows[k - 1], WindowKey(window),
                                  Growth(StatSafe(values[n + 1 - window]),
                                         StatSafe(values[n])))
                     ELSE Windows[k - 1]
    IN  Windows[Len(growth_windows)]

\* forecast = None
NoForecast ==
    [present |-> FALSE, predictions |-> <<>>, lower_bound |-> <<>>, upper_bound |-> <<>>,
     metrics |-> [mae |-> None, rmse |-> None, std_error |-> None]]

\* DataAnalytics._generate_forecast
generate_forecast(df) ==
    LET values == ValuesOf(df)
        n == Len(values)
        X == Arange(0, n)
        model == LinearRegressionFit(values)
        future_X == Arange(n, n + forecast_days)
        future == Predict(model, future_X)
        predictions == [i \in 1..Len(future) |-> StatSafe(future[i])]
        historical_pred == Predict(model, X)
        mae == MeanAbsoluteError(values, historical_pred)
        mse == MeanSquaredError(values, historical_pred)
        std_err == StatSafe(Std([i \in 1..n |-> FSub(values[i], historical_pred[i])], 0))
        width == FMul(FInt(2), std_err)
    IN  IF model.raised # "" \/ mae.raised # "" \/ mse.raised # "" THEN NoForecast
        \* pred - 2 * std_err with pred = None is a TypeError
        ELSE IF ~IsNone(std_err) /\ \E i \in 1..Len(predictions) : IsNone(predictions[i])
        THEN NoForecast
        ELSE [present |-> TRUE,
              predictions |-> predictions,
              lower_bound |->
                  [i \in 1..Len(predictions) |->
                      IF IsNone(std_err) THEN None
                      ELSE StatSafe(FSub(predictions[i], width))],
              upper_bound |->
                  [i \in 1..Len(predictions) |->
                      IF IsNone(std_err) THEN None
                      ELSE StatSafe(FAdd(predictions[i], width))],
              metrics |-> [mae |-> StatSafe(mae.val),
                           rmse |-> StatSafe(FSqrt(mse.val)),
                           std_error |-> std_err]]

NoResults ==
    [trend_analysis |-> TrendFailed, growth_metrics |-> <<>>,
     basic_stats |-> [mean |-> None, median |-> None, std |-> None,
                      min |-> None, max |-> None, last_value |-> None],
     forecast |-> NoForecast]

AnalyzeFailed(msg) == [ok |-> FALSE, err |-> msg, results |-> NoResults]

\* the caller's frame after an analyze_pair that sanitizes it in place
CallerFrame_InPlace(df) ==
    IF Len(df) < min_points THEN df
    ELSE WithValues(df, [i \in 1..Len(df) |->
             IF IsNone(StatSafe(df[i].value)) THEN NaN ELSE df[i].value])

\* the caller's frame after analyze_pair(df): the function sanitizes and
\* drops rows on df.copy(), the frame it was handed is left as it was
CallerFrame(df) == df

\* the caller's dictionary after analyze_pairs: it is only read, and each of
\* its frames is handed to analyze_pair
CallerFrames(pair_dataframes) ==
    [i \in 1..Len(pair_dataframes) |->
        [key |-> pair_dataframes[i].key, val |-> CallerFrame(pair_dataframes[i].val)]]

\* DataAnalytics.analyze_pair: the AnalyticsResults, or the ValueError raised
analyze_pair(df, include_forecast) ==
    IF Len(df) < min_points THEN AnalyzeFailed("Insufficient data points")
    ELSE LET clean == SanitizedRows(df)
         IN  IF clean = <<>> THEN AnalyzeFailed("No valid numeric values after cleaning")
             ELSE [ok |-> TRUE, err |-> "",
                   results |->
                       [trend_analysis |-> analyze_trend(clean),
                        growth_metrics |-> calculate_growth_metrics(clean),
                        basic_stats |-> calculate_basic_stats(clean),
                        forecast |-> IF include_forecast THEN generate_forecast(clean)
                                     ELSE NoForecast]]

\* one turn of the loop of analyze_pairs on the item (pair_key, df)
AnalyzeItem(done, pair_key, df, r) ==
    IF df = <<>> THEN done
    ELSE IF r.ok THEN DictSet(done, pair_key, r.results)
    ELSE done

\* DataAnalytics.analyze_pairs: an empty frame is skipped, a frame whose
\* analyze_pair raises is logged and skipped
RECURSIVE analyze_pairs(_, _)
analyze_pairs(pair_dataframes, include_forecast) ==
    IF pair_dataframes = <<>> THEN <<>>
    ELSE AnalyzeItem(analyze_pairs(SubSeq(pair_dataframes, 1, Len(pair_dataframes) - 1),
                                   include_forecast),
                     Last(pair_dataframes).key, Last(pair_dataframes).val,
                     analyze_pair(Last(pair_dataframes).val, include_forecast))

\* ------------------------------------------------------------ transformer

\* DataTransformer.config
ma_windows == <<7, 30>>
min_periods == 3
growth_threshold == Fin(Scale \div 20)

\* DataTransformer._safe_numeric on a float or None
TransSafe(x) == DataTransformer_safe_numeric(PyOf(x)).val

\* DataTransformer._safe_division
DataTransformer_safe_division(numerator, denominator) ==
    IF IsZero(denominator) THEN None
    ELSE TransSafe(FDiv(numerator, denominator))

\* Series.rolling(window, min_periods).mean(): the mean of the last `window`
\* values up to each row, missing while fewer than min_periods are there
RollingMean(vals, window, minp) ==
    [i \in 1..Len(vals) |->
        LET from == IF i > window THEN i - window + 1 ELSE 1
        IN  IF i - from + 1 < minp THEN NaN
            ELSE Mean(SubSeq(vals, from, i))]

\* Series.pct_change(): value / previous value - 1, missing in the first row
PctChange(vals) ==
    [i \in 1..Len(vals) |->
        IF i = 1 THEN NaN
        ELSE FSub(FDiv(vals[i], vals[i - 1]), FInt(1))]

\* a column written back to the frame: None is stored as NaN
Stored(x) == IF IsNone(x) THEN NaN ELSE x

TrendMetricsFailed ==
    [trend_direction |-> "unknown", growth_rate |-> None, moving_average |-> <<>>]

\* the direction _calculate_trend_metrics reports
TransformerDirection(slope, growth_rate) ==
    IF IsNone(slope) THEN "unknown"
    \* abs(growth_rate or 0) < growth_threshold
    ELSE IF FLt(IF IsNone(growth_rate) THEN Fin(0) ELSE FAbs(growth_rate), growth_threshold)
    THEN "stable"
    ELSE IF FGt(slope, Fin(0)) THEN "increasing" ELSE "decreasing"

\* the growth from the first to the last value
TransformerGrowth(first_value, last_value) ==
    IF ~IsNone(first_value) /\ ~IsNone(last_value)
    THEN DataTransformer_safe_division(FSub(last_value, first_value), first_value)
    ELSE None

\* DataTransformer._calculate_trend_metrics
calculate_trend_metrics(df) ==
    With(TransformerGrowth(TransSafe(df[1].value), TransSafe(df[Len(df)].value)),
         LAMBDA growth_rate :
    With(LinearRegressionFit(ValuesOf(df)), LAMBDA model :
        IF model.raised # "" THEN TrendMetricsFailed
        ELSE [trend_direction |-> TransformerDirection(TransSafe(model.coef), growth_rate),
              growth_rate |-> growth_rate,
              moving_average |->
                  <<[key |-> "7d", val |-> TransSafe(df[Len(df)].ma_7d)],
                    [key |-> "30d", val |-> TransSafe(df[Len(df)].ma_30d)]>>]))

TransformFailed(msg) == [ok |-> FALSE, err |-> msg, df |-> <<>>, metrics |-> TrendMetricsFailed]

\* the frame with the columns of transform_pair added
WithColumns(df, ma7, ma30, pct) ==
    [i \in 1..Len(df) |->
        [ts |-> df[i].ts, value |-> df[i].value,
         ma_7d |-> Stored(TransSafe(ma7[i])),
         ma_30d |-> Stored(TransSafe(ma30[i])),
         pct_change |-> Stored(TransSafe(pct[i]))]]

\* Series.apply(_safe_numeric) followed by dropna(subset=['value'])
TransformerSanitizedRows(df) ==
    SelectAt([i \in 1..Len(df) |-> Row(df[i].ts, TransSafe(df[i].value))],
             [i \in 1..Len(df) |-> ~IsNull(TransSafe(df[i].value))])

\* DataTransformer.transform_pair: the frame with the columns ma_7d, ma_30d
\* and pct_change added, and its TransformationMetrics
transform_pair(df) ==
    With(TransformerSanitizedRows(df), LAMBDA kept :
        IF kept = <<>> THEN TransformFailed("No valid numeric values after cleaning")
        ELSE With(ValuesOf(kept), LAMBDA values :
             With(WithColumns(kept,
                              RollingMean(values, ma_windows[1], min_periods),
                              RollingMean(values, ma_windows[2], min_periods),
                              PctChange(values)), LAMBDA out :
                 [ok |-> TRUE, err |-> "", df |-> out,
                  metrics |-> calculate_trend_metrics(out)])))

\* one turn of the loop of transform_pairs on the item (pair_key, df)
TransformItem(done, pair_key, df, r) ==
    IF df = <<>> THEN done
    ELSE IF r.ok /\ r.df # <<>>
    THEN [transformed_pairs |-> DictSet(done.transformed_pairs, pair_key, r.df),
          transformation_metrics |-> DictSet(done.transformation_metrics, pair_key, r.metrics)]
    ELSE done

\* DataTransformer.transform_pairs: an empty frame is skipped, a frame whose
\* transform_pair raises is logged and skipped
RECURSIVE transform_pairs(_)
transform_pairs(pair_dataframes) ==
    IF pair_dataframes = <<>>
    THEN [transformed_pairs |-> <<>>, transformation_metrics |-> <<>>]
    ELSE TransformItem(transform_pairs(SubSeq(pair_dataframes, 1, Len(pair_dataframes) - 1)),
                       Last(pair_dataframes).key, Last(pair_dataframes).val,
                       transform_pair(Last(pair_dataframes).val))

\* ------------------------------------------------------------ chart generator

\* config['max_points']
max_points == 100

\* ChartGenerator._sanitize_float on a float or None
ChartSafe(x) == ChartGenerator_sanitize_float(PyOf(x)).val

\* Timestamp.isoformat(): the text of the day, one text per day
isoformat(ts) == [date |-> ts]

MinDay(df) == CHOOSE d \in Range(IndexOf(df)) : \A e \in Range(IndexOf(df)) : d <= e
MaxDay(df) == CHOOSE d \in Range(IndexOf(df)) : \A e \in Range(IndexOf(df)) : d >= e

\* the rows of s at the positions from lo to hi that are in the set I, in the
\* order of the positions: the two halves of the range, one after the other
RECURSIVE AtRange(_, _, _, _)
AtRange(s, I, lo, hi) ==
    IF lo > hi THEN <<>>
    ELSE IF lo = hi THEN (IF lo \in I THEN <<s[lo]>> ELSE <<>>)
    ELSE AtRange(s, I, lo, (lo + hi) \div 2) \o AtRange(s, I, (lo + hi) \div 2 + 1, hi)

\* the rows of s at the positions in the set I, in the order of the positions
AtPositions(s, I) == AtRange(s, I, 1, Len(s))

\* df.resample('D').agg({'value': 'mean'}): one row for each day from the
\* first to the last, holding the mean of the day's present values, NaN for a
\* day without any
ResampleDailyMean(df) ==
    IF df = <<>> THEN <<>>
    ELSE LET first == MinDay(df)
             DayValues(d) ==
                 AtPositions(ValuesOf(df),
                     {i \in 1..Len(df) : df[i].ts = d /\ ~IsNull(df[i].value)})
             DayMean(d) == With(DayValues(d),
                 LAMBDA vals : IF vals = <<>> THEN NaN ELSE Mean(vals))
         IN  [j \in 1..(MaxDay(df) - first + 1) |-> Row(first + j - 1, DayMean(first + j - 1))]

\* DataFrame.dropna(): the rows whose value is present
DropNa(df) == AtPositions(df, {i \in 1..Len(df) : ~IsNull(df[i].value)})

\* ChartGenerator._prepare_time_series: the values sanitized, a frame of more
\* than max_points rows resampled to daily means, one point for each row
\* whose value is not null
prepare_time_series(df) ==
    LET safe == [i \in 1..Len(df) |-> Row(df[i].ts, Stored(ChartSafe(df[i].value)))]
        sampled == IF Len(safe) > max_points THEN DropNa(ResampleDailyMean(safe)) ELSE safe
        shown == DropNa(sampled)
    IN  [i \in 1..Len(shown) |-> [x |-> isoformat(shown[i].ts), y |-> shown[i].value]]

\* the index that sorts a by insertion: i is placed before the first index
\* whose value is greater
RECURSIVE InsertIndex(_, _, _)
InsertIndex(idx, a, i) ==
    IF idx = <<>> THEN <<i>>
    ELSE IF FLt(a[i], a[Last(idx)])
         THEN Append(InsertIndex(SubSeq(idx, 1, Len(idx) - 1), a, i), Last(idx))
         ELSE Append(idx, i)

\* the indices of a as they stand, unsorted
RECURSIVE argsort_Unsorted(_)
argsort_Unsorted(a) ==
    IF a = <<>> THEN <<>>
    ELSE Append(argsort_Unsorted(SubSeq(a, 1, Len(a) - 1)), Len(a))

\* np.argsort(a): the indices of a in ascending order of their values
RECURSIVE argsort(_)
argsort(a) ==
    IF a = <<>> THEN <<>>
    ELSE InsertIndex(argsort(SubSeq(a, 1, Len(a) - 1)), a, Len(a))

\* s[::-1]
Reversed(s) == [i \in 1..Len(s) |-> s[Len(s) + 1 - i]]

CategoryPrefix == "category_"
CategoryNames == <<"A", "B", "C", "D", "E">>

\* category.replace('category_', '')
StripPrefix(category) ==
    IF \E i \in 1..Len(CategoryNames) : category = CategoryPrefix \o CategoryNames[i]
    THEN CHOOSE name \in Range(CategoryNames) : category = CategoryPrefix \o name
    ELSE category

\* value * 100 for a value read from the results: None * 100 is a TypeError
TimesHundred(value) ==
    IF IsNone(value) THEN Raised("TypeError") ELSE Returned(FMul(value, FInt(100)))

NoChart == [present |-> FALSE, labels |-> <<>>, growth_rates |-> <<>>, trend_strengths |-> <<>>]

\* the loop of generate_category_strength_chart over the items from the k-th:
\* the lists so far, or the exception of the first item that raises
RECURSIVE StrengthLoop(_, _)
StrengthLoop(analysis_results, k) ==
    IF k = 0 THEN Returned(NoChart)
    ELSE LET before == StrengthLoop(analysis_results, k - 1)
             results == analysis_results[k].val
             growth == TimesHundred(DictGet(results.growth_metrics, "total_growth"))
             strength == TimesHundred(results.trend_analysis.strength)
         IN  IF before.raised # "" THEN before
             ELSE IF growth.raised # "" THEN Raised(growth.raised)
             ELSE IF strength.raised # "" THEN Raised(strength.raised)
             ELSE LET growth_rate == ChartSafe(growth.val)
                      trend_strength == ChartSafe(strength.val)
                  IN  IF ~IsNone(growth_rate) /\ ~IsNone(trend_strength)
                      THEN Returned([present |-> TRUE,
                               labels |-> Append(before.val.labels,
                                                 StripPrefix(analysis_results[k].key)),
                               growth_rates |-> Append(before.val.growth_rates, growth_rate),
                               trend_strengths |->
                                   Append(before.val.trend_strengths, trend_strength)])
                      ELSE before

\* ChartGenerator.generate_category_strength_chart: the labels, the growth
\* rates and the trend strengths of the chart, or no chart (None) when any
\* step raises
generate_category_strength_chart(analysis_results) ==
    LET lists == StrengthLoop(analysis_results, Len(analysis_results))
    IN  IF lists.raised # "" THEN NoChart
        \* if not categories: raise ValueError
        ELSE IF lists.val.labels = <<>> THEN NoChart
        ELSE LET sorted_indices == Reversed(argsort(lists.val.growth_rates))
                 Pick(s) == [i \in 1..Len(sorted_indices) |-> s[sorted_indices[i]]]
             IN  [present |-> TRUE,
                  labels |-> Pick(lists.val.labels),
                  growth_rates |-> Pick(lists.val.growth_rates),
                  trend_strengths |-> Pick(lists.val.trend_strengths)]

\* ------------------------------------------------------------ sanitizer runs

\* the largest magnitude of the small floats and ints the sanitizers are tried on
MaxSmall == 3

SanFloats ==
    {Fin(n * Scale) : n \in -MaxSmall..MaxSmall}
    \cup {Fin(n) : n \in {1, -1, MaxValue - 1, MaxValue, MaxValue + 1,
                          -(MaxValue - 1), -MaxValue, -(MaxValue + 1),
                          FloatMax, -FloatMax}}
    \cup {NaN, PInf, NInf}

\* ints too large for float() lie above FloatMax
SanInts ==
    {n * Scale : n \in -MaxSmall..MaxSmall}
    \cup {MaxValue, MaxValue + 1, FloatMax, FloatMax + 1, -(FloatMax + 1)}

SanStrings == NumericStrings \cup {"abc", ""}

SanInputs ==
    {PyNone, PyObject}
    \cup {PyFloatOf(x) : x \in SanFloats}
    \cup {PyInt(n) : n \in SanInts}
    \cup {PyStr(s) : s \in SanStrings}
    \cup {PyList(s) : s \in {"[]", "[1.0]", "[nan]", "[1.0, 2.0]"}}

Pending == [by |-> "", raised |-> "", val |-> None]
Outcome(by, r) == [by |-> by, raised |-> r.raised, val |-> r.val]

SanIdle == sanIn = PyNone /\ sanOut = Pending

SanInit ==
    /\ sanIn \in SanInputs
    /\ sanOut = Pending

TransformerSanitize ==
    /\ sanOut = Pending
    /\ sanOut' = Outcome("transformer", DataTransformer_safe_numeric(sanIn))
    /\ UNCHANGED <<sanIn, cIn, cOut, cOut2, hoOut, upload, pairs, cleaned, aIn, aFc, aOut, bIn, bFc, bClean, bTrans, bAnal, tOut,
                   services, auditLog, rq, qk,
                   gIn, gOut, chIn, chOut, csIn, csOut>>

StatisticsSanitize ==
    /\ sanOut = Pending
    /\ sanOut' = Outcome("statistics", DataAnalytics_safe_numeric(sanIn))
    /\ UNCHANGED <<sanIn, cIn, cOut, cOut2, hoOut, upload, pairs, cleaned, aIn, aFc, aOut, bIn, bFc, bClean, bTrans, bAnal, tOut,
                   services, auditLog, rq, qk,
                   gIn, gOut, chIn, chOut, csIn, csOut>>

ExporterSanitize ==
    /\ sanOut = Pending
    /\ sanOut' = Outcome("exporter", DataExporter_safe_numeric(sanIn))
    /\ UNCHANGED <<sanIn, cIn, cOut, cOut2, hoOut, upload, pairs, cleaned, aIn, aFc, aOut, bIn, bFc, bClean, bTrans, bAnal, tOut,
                   services, auditLog, rq, qk,
                   gIn, gOut, chIn, chOut, csIn, csOut>>

ChartSanitize ==
    /\ sanOut = Pending
    /\ sanOut' = Outcome("chart", ChartGenerator_sanitize_float(sanIn))
    /\ UNCHANGED <<sanIn, cIn, cOut, cOut2, hoOut, upload, pairs, cleaned, aIn, aFc, aOut, bIn, bFc, bClean, bTrans, bAnal, tOut,
                   services, auditLog, rq, qk,
                   gIn, gOut, chIn, chOut, csIn, csOut>>

SanNext ==
    \/ TransformerSanitize
    \/ StatisticsSanitize
    \/ ExporterSanitize
    \/ ChartSanitize

\* ------------------------------------------------------------ cleaner runs

\* the longest frame of which every filling is tried
MaxShort == 4
\* the longest frame tried
MaxLong == 10

\* the dates of a frame of n rows: ascending, descending, in equal pairs, all
\* equal, and ascending with the last row repeating the first date
TsPatterns(n) ==
    {[i \in 1..n |-> i],
     [i \in 1..n |-> n + 1 - i],
     [i \in 1..n |-> (i + 1) \div 2],
     [i \in 1..n |-> 1],
     [i \in 1..n |-> IF i = n THEN 1 ELSE i]}

\* the values of a short frame: missing, infinite (a CSV cell "inf"), finite
ShortValues == {NaN, PInf, Fin(0), Fin(Scale), Fin(10 * Scale)}

\* the frames of n rows with every date pattern and every filling
ShortFrames(n) ==
    {[i \in 1..n |-> Row(ts[i], v[i])] : ts \in TsPatterns(n), v \in [1..n -> ShortValues]}

\* the frames of n rows of ascending dates and values with k missing values
\* at the head or at the tail
LongFrames(n) ==
    UNION {{[i \in 1..n |-> Row(i, IF i <= k THEN NaN ELSE FInt(i))],
            [i \in 1..n |-> Row(i, IF i > n - k THEN NaN ELSE FInt(i))]} : k \in 0..n}

\* the frames of n rows of ascending dates whose values are 0 but for one
\* value of 100 at the row p and k missing values before or after it
SpikeFrames(n) ==
    UNION {{[i \in 1..n |-> Row(i, IF i \in (p - k)..(p - 1) THEN NaN
                                   ELSE IF i = p THEN FInt(100) ELSE FInt(0))],
            [i \in 1..n |-> Row(i, IF i \in (p + 1)..(p + k) THEN NaN
                                   ELSE IF i = p THEN FInt(100) ELSE FInt(0))]} :
           p \in 1..n, k \in 1..2}

CleanPending == CleanFailed("pending")
OutliersPending == [df |-> <<>>, outlier_count |-> -1]

CleanIdle ==
    /\ cIn = <<>>
    /\ cOut = CleanPending
    /\ cOut2 = CleanPending
    /\ hoOut = OutliersPending

CleanInit ==
    /\ \E n \in 0..MaxLong :
            cIn \in (IF n <= MaxShort THEN ShortFrames(n)
                     ELSE LongFrames(n) \cup SpikeFrames(n))
    /\ cOut = CleanPending
    /\ cOut2 = CleanPending
    /\ hoOut = OutliersPending

\* clean_pair(cIn)
CleanPair ==
    /\ cOut = CleanPending
    /\ hoOut = OutliersPending
    /\ cOut' = clean_pair(cIn)
    /\ UNCHANGED <<sanIn, sanOut, cIn, cOut2, hoOut, upload, pairs, cleaned, aIn, aFc, aOut, bIn, bFc, bClean, bTrans, bAnal, tOut,
                   services, auditLog, rq, qk,
                   gIn, gOut, chIn, chOut, csIn, csOut>>

\* clean_pair on the frame clean_pair returned
CleanAgain ==
    /\ cOut.ok
    /\ cOut2 = CleanPending
    /\ cOut2' = clean_pair(cOut.df)
    /\ UNCHANGED <<sanIn, sanOut, cIn, cOut, hoOut, upload, pairs, cleaned, aIn, aFc, aOut, bIn, bFc, bClean, bTrans, bAnal, tOut,
                   services, auditLog, rq, qk,
                   gIn, gOut, chIn, chOut, csIn, csOut>>

\* _handle_outliers(cIn); clean_pair calls it on a frame that has rows and
\* no missing value
HandleOutliers ==
    /\ cOut = CleanPending
    /\ hoOut = OutliersPending
    /\ cIn # <<>>
    /\ NullCount(ValuesOf(cIn)) = 0
    /\ hoOut' = handle_outliers(cIn)
    /\ UNCHANGED <<sanIn, sanOut, cIn, cOut, cOut2, upload, pairs, cleaned, aIn, aFc, aOut, bIn, bFc, bClean, bTrans, bAnal, tOut,
                   services, auditLog, rq, qk,
                   gIn, gOut, chIn, chOut, csIn, csOut>>

CleanNext ==
    \/ CleanPair
    \/ CleanAgain
    \/ HandleOutliers

\* ------------------------------------------------------------ upload runs

\* the most rows of an upload
MaxUpload == 3

DateTexts == {"2024-01-01", "2024-01-02", "n/a"}
Categories == {CatStr("A"), CatStr("1"), CatInt(1), CatNaN}

\* uploads in the standard shape; the value of a row is its row number, so
\* that every row can be told from the others
Uploads(n) ==
    {[i \in 1..n |-> [date |-> d[i], category |-> c[i], value |-> FInt(i)]] :
        d \in [1..n -> DateTexts], c \in [1..n -> Categories]}

NotParsed == <<[key |-> "pending", val |-> <<>>]>>
NotCleaned == [cleaned_pairs |-> NotParsed, quality_metrics |-> <<>>]

UploadIdle ==
    /\ upload = <<>>
    /\ pairs = NotParsed
    /\ cleaned = NotCleaned

UploadInit ==
    /\ \E n \in 0..MaxUpload : upload \in Uploads(n)
    /\ pairs = NotParsed
    /\ cleaned = NotCleaned

\* process_upload on a file in the standard shape
ProcessUpload ==
    /\ pairs = NotParsed
    /\ pairs' = process_standard_format(upload)
    /\ UNCHANGED <<sanIn, sanOut, cIn, cOut, cOut2, hoOut, upload, cleaned, aIn, aFc, aOut, bIn, bFc, bClean, bTrans, bAnal, tOut,
                   services, auditLog, rq, qk,
                   gIn, gOut, chIn, chOut, csIn, csOut>>

\* clean_pairs on what the parser returned
CleanPairs ==
    /\ pairs # NotParsed
    /\ cleaned = NotCleaned
    /\ cleaned' = clean_pairs(pairs)
    /\ UNCHANGED <<sanIn, sanOut, cIn, cOut, cOut2, hoOut, upload, pairs, aIn, aFc, aOut, bIn, bFc, bClean, bTrans, bAnal, tOut,
                   services, auditLog, rq, qk,
                   gIn, gOut, chIn, chOut, csIn, csOut>>

UploadNext ==
    \/ ProcessUpload
    \/ CleanPairs

\* ------------------------------------------------------------ analysis runs

\* the most rows of a frame handed to the statistics engine
MaxRows == 11

\* the values of a frame of n rows before any is replaced: constant, rising,
\* falling, alternating
Shapes(n) ==
    {[i \in 1..n |-> FInt(5)],
     [i \in 1..n |-> FInt(i)],
     [i \in 1..n |-> FInt(2 * (n + 1 - i))],
     [i \in 1..n |-> FInt(4 + 2 * (i % 2))]}

\* values put in place of a value of the shape: missing, infinite, finite
\* above the limit, at the limit (sums of them overflow), zero, and a value
\* whose square overflows
Specials ==
    {NaN, PInf, Fin(MaxValue + 1), Fin(MaxValue), Fin(-MaxValue), Fin(0),
     Fin(6250 * Scale)}

\* the rows whose value may be replaced: the first, the middle, the last
SpecialRows(n) == {1, (n + 1) \div 2, n}

\* the frames of n rows: a shape with any of its special rows replaced
AnalysisFrames(n) ==
    {[i \in 1..n |-> Row(i, IF i \in DOMAIN sp THEN sp[i] ELSE shape[i])] :
        shape \in Shapes(n),
        sp \in UNION {[rows -> Specials] : rows \in SUBSET SpecialRows(n)}}

AnalyzePending == AnalyzeFailed("pending")

TransformPending == TransformFailed("pending")

AnalyzeIdle ==
    /\ aIn = <<>>
    /\ aFc = FALSE
    /\ aOut = AnalyzePending
    /\ tOut = TransformPending

AnalyzeInit ==
    /\ \E n \in (min_points - 2)..MaxRows : aIn \in AnalysisFrames(n)
    /\ aFc \in BOOLEAN
    /\ aOut = AnalyzePending
    /\ tOut = TransformPending

\* analyze_pair(aIn, aFc)
AnalyzePair ==
    /\ aOut = AnalyzePending
    /\ aOut' = analyze_pair(aIn, aFc)
    /\ aIn' = CallerFrame(aIn)
    /\ UNCHANGED <<sanIn, sanOut, cIn, cOut, cOut2, hoOut, upload, pairs, cleaned, aFc, bIn, bFc, bClean, bTrans, bAnal, tOut,
                   services, auditLog, rq, qk,
                   gIn, gOut, chIn, chOut, csIn, csOut>>

\* transform_pair(aIn)
TransformPair ==
    /\ tOut = TransformPending
    /\ tOut' = transform_pair(aIn)
    /\ UNCHANGED <<sanIn, sanOut, cIn, cOut, cOut2, hoOut, upload, pairs, cleaned, aIn, aFc, aOut,
                   bIn, bFc, bClean, bTrans, bAnal,
                   services, auditLog, rq, qk,
                   gIn, gOut, chIn, chOut, csIn, csOut>>

AnalyzeNext ==
    \/ AnalyzePair
    \/ TransformPair

\* ------------------------------------------------------------ batch runs

\* the most series of a dictionary handed to a batch operation
MaxKeys == 2

PairKey(i) == CategoryKey(CatInt(i))

FrameOf(vals) == [i \in 1..Len(vals) |-> Row(i, vals[i])]

\* frames a batch operation meets: empty; too short for the cleaner and the
\* statistics engine; half missing; long enough for every stage, with an
\* outlier; long enough, with an infinite value; nothing but missing values
BatchFrames ==
    {<<>>,
     FrameOf(<<FInt(1), FInt(2)>>),
     FrameOf(<<FInt(3), NaN, NaN, FInt(4)>>),
     FrameOf([i \in 1..(min_points + 1) |-> IF i = 6 THEN FInt(100) ELSE FInt(10 + (i % 3))]),
     FrameOf([i \in 1..(min_points + 1) |-> IF i = 2 THEN PInf ELSE FInt(10 + (i % 3))]),
     FrameOf([i \in 1..min_points |-> NaN])}

\* the dictionaries of n series, in every insertion order
BatchDicts(n) ==
    {d \in [1..n -> [key : {PairKey(i) : i \in 1..MaxKeys}, val : BatchFrames]] :
        \A i, j \in 1..n : i # j => d[i].key # d[j].key}

BatchPending == <<[key |-> "pending", val |-> <<>>]>>
CleanBatchPending == [cleaned_pairs |-> BatchPending, quality_metrics |-> <<>>]
TransformBatchPending == [transformed_pairs |-> BatchPending, transformation_metrics |-> <<>>]

BatchIdle ==
    /\ bIn = <<>>
    /\ bFc = FALSE
    /\ bClean = CleanBatchPending
    /\ bTrans = TransformBatchPending
    /\ bAnal = BatchPending

BatchInit ==
    /\ \E n \in 0..MaxKeys : bIn \in BatchDicts(n)
    /\ bFc \in BOOLEAN
    /\ bClean = CleanBatchPending
    /\ bTrans = TransformBatchPending
    /\ bAnal = BatchPending

CleanBatch ==
    /\ bClean = CleanBatchPending
    /\ bClean' = clean_pairs(bIn)
    /\ UNCHANGED <<sanIn, sanOut, cIn, cOut, cOut2, hoOut, upload, pairs, cleaned, aIn, aFc, aOut,
                   bIn, bFc, bTrans, bAnal, tOut,
                   services, auditLog, rq, qk,
                   gIn, gOut, chIn, chOut, csIn, csOut>>

TransformBatch ==
    /\ bTrans = TransformBatchPending
    /\ bTrans' = transform_pairs(bIn)
    /\ UNCHANGED <<sanIn, sanOut, cIn, cOut, cOut2, hoOut, upload, pairs, cleaned, aIn, aFc, aOut,
                   bIn, bFc, bClean, bAnal, tOut,
                   services, auditLog, rq, qk,
                   gIn, gOut, chIn, chOut, csIn, csOut>>

AnalyzeBatch ==
    /\ bAnal = BatchPending
    /\ bAnal' = analyze_pairs(bIn, bFc)
    /\ bIn' = CallerFrames(bIn)
    /\ UNCHANGED <<sanIn, sanOut, cIn, cOut, cOut2, hoOut, upload, pairs, cleaned, aIn, aFc, aOut,
                   bFc, bClean, bTrans, tOut,
                   services, auditLog, rq, qk,
                   gIn, gOut, chIn, chOut, csIn, csOut>>

BatchNext ==
    \/ CleanBatch
    \/ TransformBatch
    \/ AnalyzeBatch

\* ------------------------------------------------------------ requests

(***************************************************************************)
(* An uploaded file is [format, columns, rows]: the format its name ends   *)
(* in, the columns of its table and the rows of the table.                 *)
(***************************************************************************)
StandardColumns == {"date", "category", "value"}

\* DataHandler.process_upload: raises on a name that ends in neither .csv
\* nor .json, returns None (here no pairs) for a table that is not in the
\* standard shape
process_upload(file) ==
    IF file.format \notin {"csv", "json"} THEN [raised |-> TRUE, pairs |-> <<>>]
    ELSE IF file.columns # StandardColumns THEN [raised |-> FALSE, pairs |-> <<>>]
    ELSE [raised |-> FALSE, pairs |-> process_standard_format(file.rows)]

\* the configuration the constructors of the service instances store
ServiceConfig ==
    [data_cleaner |-> [outlier_threshold |-> outlier_threshold, min_records |-> min_records],
     data_transformer |-> [ma_windows |-> ma_windows, min_periods |-> min_periods,
                           growth_threshold |-> growth_threshold],
     analytics_service |-> [forecast_days |-> forecast_days, min_points |-> min_points,
                            growth_windows |-> growth_windows,
                            significant_change |-> significant_change]]

\* a service instance whose method stored the number of frames it was given
AfterCall_Counting(instances, service, frames) ==
    [instances EXCEPT ![service] = [n \in {"calls"} |-> Len(frames)]]

\* the service instances after a call of a method of one of them on the
\* frames of a request: no method assigns to self
AfterCall(instances, service, frames) == instances

NoResponse == [status |-> 0, message |-> "", media_type |-> "", filename |-> "", body |-> ""]

\* HTTPException(400, detail = {"message": e.message, ...})
BadRequest(message) ==
    [status |-> 400, message |-> message, media_type |-> "application/json",
     filename |-> "", body |-> ""]

\* JSONResponse(content = json_compatible_data)
JSONResponse ==
    [status |-> 200, message |-> "", media_type |-> "application/json",
     filename |-> "", body |-> "analysis"]

\* Response(content = exporter.export_to_csv(...), media_type = "text/csv") with
\* the Content-Disposition of an attachment
CsvResponse ==
    [status |-> 200, message |-> "", media_type |-> "text/csv",
     filename |-> "analysis_export_<YYYYMMDD_HHMMSS>.csv", body |-> "csv export"]

\* step 8 of analyze_data
ExportResponse(export_format) ==
    IF export_format = "csv" THEN CsvResponse ELSE JSONResponse

\* the keys of the charts of step 6
ChartKeys(analysis_results) ==
    {pair_key \o "_trend" : pair_key \in DictKeys(analysis_results)} \cup {"category_strength"}

NoCleaned == [cleaned_pairs |-> <<>>, quality_metrics |-> <<>>]
NoTransformed == [transformed_pairs |-> <<>>, transformation_metrics |-> <<>>]

\* a request to /analyze that has just arrived
NewRequest(file) ==
    [file |-> file, pc |-> "parse", stages |-> <<>>, include_forecast |-> FALSE,
     include_visualizations |-> FALSE, export_format |-> "",
     pair_dataframes |-> <<>>, cleaned |-> NoCleaned, transformed |-> NoTransformed,
     analysis_results |-> <<>>, visualizations |-> {}, response |-> NoResponse]

\* the request r after a stage that raised AnalyticsError
StageFailed(r, stage, message) ==
    [r EXCEPT !.pc = "done", !.stages = Append(@, stage), !.response = BadRequest(message)]

\* a request that went on after a stage that left nothing
StagePassed_Anyway(r, stage, next, nothing, message) ==
    [r EXCEPT !.pc = next, !.stages = Append(@, stage)]

\* the request r after a stage: AnalyticsError if it left nothing
StagePassed(r, stage, next, nothing, message) ==
    IF nothing THEN StageFailed(r, stage, message)
    ELSE [r EXCEPT !.pc = next, !.stages = Append(@, stage)]

\* a request to /quick-analysis that has just arrived
NewQuick(file, category) ==
    [file |-> file, category |-> category, pc |-> "parse", pair_dataframes |-> <<>>,
     results |-> <<>>, response |-> NoResponse]

\* f"{x:.2%}": the percentage to two decimals, in hundredths of a percent
PercentText(x) ==
    IF IsNone(x) THEN [text |-> "None", hundredths |-> 0]
    ELSE [text |-> "%",
          hundredths |-> Sign(x.v) * ((2 * Abs(x.v) * 10000 + Scale) \div (2 * Scale))]

\* the response data of quick_analysis
RECURSIVE QuickResults(_)
QuickResults(analysis_results) ==
    IF analysis_results = <<>> THEN <<>>
    ELSE Append(QuickResults(SubSeq(analysis_results, 1, Len(analysis_results) - 1)),
                [key |-> Last(analysis_results).key,
                 val |-> [trend |-> Last(analysis_results).val.trend_analysis.direction,
                          growth |-> PercentText(DictGet(Last(analysis_results).val.growth_metrics,
                                                         "total_growth")),
                          current_value |-> Last(analysis_results).val.basic_stats.last_value]])

\* no series is taken out
FilterCategory_All(cleaned_pairs, category) == cleaned_pairs

\* step 3 of quick_analysis: the one series of the category asked for
FilterCategory(cleaned_pairs, category) ==
    IF category = "" THEN cleaned_pairs
    ELSE <<[key |-> "category_" \o category,
            val |-> DictGet(cleaned_pairs, "category_" \o category)]>>

\* steps 4 and 5 of quick_analysis
QuickAnalysis(q, cleaned_pairs) ==
    With(analyze_pairs(cleaned_pairs, FALSE), LAMBDA analysis_results :
        IF analysis_results = <<>>
        THEN [q EXCEPT !.pc = "done", !.response = BadRequest("Error performing analysis")]
        ELSE [q EXCEPT !.pc = "done", !.response = JSONResponse,
                       !.results = QuickResults(analysis_results)])

\* steps 2 to 5 of quick_analysis
QuickClean(q) ==
    With(clean_pairs(q.pair_dataframes).cleaned_pairs, LAMBDA cleaned_pairs :
        IF cleaned_pairs = <<>>
        THEN [q EXCEPT !.pc = "done", !.response = BadRequest("Error cleaning data")]
        ELSE IF q.category # "" /\ ("category_" \o q.category) \notin DictKeys(cleaned_pairs)
        THEN [q EXCEPT !.pc = "done",
                       !.response = BadRequest("Category '" \o q.category
                                                   \o "' not found in data")]
        ELSE QuickAnalysis(q, FilterCategory(cleaned_pairs, q.category)))

\* ------------------------------------------------------------ request runs

\* the rows of one category on the first dates
SeriesRows(category, vals) ==
    [i \in 1..Len(vals) |->
        [date |-> DayTexts[i], category |-> CatStr(category), value |-> vals[i]]]

\* 10, 12, 11, 13, 14, 100, 15, 16, 17, 18
ScenarioValues ==
    <<FInt(10), FInt(12), FInt(11), FInt(13), FInt(14), FInt(100), FInt(15), FInt(16),
      FInt(17), FInt(18)>>

FileOf(format, columns, rows) == [format |-> format, columns |-> columns, rows |-> rows]

ScenarioFile == FileOf("csv", StandardColumns, SeriesRows("A", ScenarioValues))

\* files that fail at each stage, and files one or two of whose series
\* pass every stage
RequestFiles ==
    {ScenarioFile,
     FileOf("csv", StandardColumns,
            SeriesRows("A", ScenarioValues) \o SeriesRows("B", <<FInt(1), FInt(2)>>)),
     FileOf("json", StandardColumns,
            SeriesRows("B", [i \in 1..min_points |-> FInt(2 * i)])
                \o SeriesRows("A", ScenarioValues)),
     FileOf("json", StandardColumns, SeriesRows("B", <<FInt(1), FInt(2)>>)),
     FileOf("csv", StandardColumns, <<>>),
     FileOf("csv", {"date", "value"}, <<>>),
     FileOf("txt", StandardColumns, SeriesRows("A", ScenarioValues)),
     FileOf("csv", StandardColumns,
            SeriesRows("A", [i \in 1..min_points |-> Fin(MaxValue + 1)])),
     FileOf("csv", StandardColumns,
            SeriesRows("A", [i \in 1..(min_points \div 2) |-> FInt(i)]))}

\* the category filters of a quick analysis: none, and two categories, each
\* of them in some files and not in others
CategoryFilters == {"", "A", "B"}

RequestIdle ==
    /\ services = ServiceConfig
    /\ auditLog = 0
    /\ rq = NewRequest(FileOf("", {}, <<>>))
    /\ qk = NewQuick(FileOf("", {}, <<>>), "")

RequestInit ==
    /\ services = ServiceConfig
    /\ auditLog = 0
    /\ \E file \in RequestFiles : rq = NewRequest(file)
    /\ \E file \in RequestFiles, category \in CategoryFilters : qk = NewQuick(file, category)

\* step 1 of analyze_data
ParseUpload ==
    /\ rq.pc = "parse"
    /\ rq' = With(process_upload(rq.file), LAMBDA out :
                 IF out.raised THEN StageFailed(rq, "parse", "Error processing upload")
                 ELSE [StagePassed(rq, "parse", "audit", out.pairs = <<>>,
                                   "Error processing upload")
                          EXCEPT !.pair_dataframes = out.pairs])
    /\ UNCHANGED <<sanIn, sanOut, cIn, cOut, cOut2, hoOut, upload, pairs, cleaned, aIn, aFc, aOut,
                   bIn, bFc, bClean, bTrans, bAnal, tOut,
                   services, auditLog, qk,
                   gIn, gOut, chIn, chOut, csIn, csOut>>

\* step 2 of analyze_data: the entry is written, or the failure is logged
\* and the request goes on
AuditChange ==
    /\ rq.pc = "audit"
    /\ rq' = [rq EXCEPT !.pc = "clean"]
    /\ \E written \in BOOLEAN : auditLog' = IF written THEN auditLog + 1 ELSE auditLog
    /\ UNCHANGED <<sanIn, sanOut, cIn, cOut, cOut2, hoOut, upload, pairs, cleaned, aIn, aFc, aOut,
                   bIn, bFc, bClean, bTrans, bAnal, tOut,
                   services, qk,
                   gIn, gOut, chIn, chOut, csIn, csOut>>

\* step 3 of analyze_data
CleanData ==
    /\ rq.pc = "clean"
    /\ rq' = With(clean_pairs(rq.pair_dataframes), LAMBDA out :
                 [StagePassed(rq, "clean", "transform", out.cleaned_pairs = <<>>,
                              "Error cleaning data")
                     EXCEPT !.cleaned = out])
    /\ services' = AfterCall(services, "data_cleaner", rq.pair_dataframes)
    /\ UNCHANGED <<sanIn, sanOut, cIn, cOut, cOut2, hoOut, upload, pairs, cleaned, aIn, aFc, aOut,
                   bIn, bFc, bClean, bTrans, bAnal, tOut,
                   auditLog, qk,
                   gIn, gOut, chIn, chOut, csIn, csOut>>

\* step 4 of analyze_data
TransformData ==
    /\ rq.pc = "transform"
    /\ rq' = With(transform_pairs(rq.cleaned.cleaned_pairs), LAMBDA out :
                 [StagePassed(rq, "transform", "analyze", out.transformed_pairs = <<>>,
                              "Error transforming data")
                     EXCEPT !.transformed = out])
    /\ services' = AfterCall(services, "data_transformer", rq.cleaned.cleaned_pairs)
    /\ UNCHANGED <<sanIn, sanOut, cIn, cOut, cOut2, hoOut, upload, pairs, cleaned, aIn, aFc, aOut,
                   bIn, bFc, bClean, bTrans, bAnal, tOut,
                   auditLog, qk,
                   gIn, gOut, chIn, chOut, csIn, csOut>>

\* step 5 of analyze_data
PerformAnalysis ==
    /\ rq.pc = "analyze"
    /\ \E include_forecast \in BOOLEAN :
           rq' = With(analyze_pairs(rq.transformed.transformed_pairs, include_forecast),
                      LAMBDA out :
                          [StagePassed(rq, "analyze", "respond", out = <<>>,
                                       "Error performing analysis")
                              EXCEPT !.analysis_results = out,
                                     !.include_forecast = include_forecast])
    /\ services' = AfterCall(services, "analytics_service", rq.transformed.transformed_pairs)
    /\ UNCHANGED <<sanIn, sanOut, cIn, cOut, cOut2, hoOut, upload, pairs, cleaned, aIn, aFc, aOut,
                   bIn, bFc, bClean, bTrans, bAnal, tOut,
                   auditLog, qk,
                   gIn, gOut, chIn, chOut, csIn, csOut>>

\* steps 6 to 8 of analyze_data: the charts are all made or, when making
\* them raises, left out
Respond ==
    /\ rq.pc = "respond"
    /\ \E include_visualizations, charts_made \in BOOLEAN, export_format \in {"", "csv", "json"} :
           rq' = [rq EXCEPT !.pc = "done",
                            !.include_visualizations = include_visualizations,
                            !.export_format = export_format,
                            !.visualizations =
                                IF include_visualizations /\ charts_made
                                THEN ChartKeys(rq.analysis_results) ELSE {},
                            !.response =
                                IF export_format # "" THEN ExportResponse(export_format)
                                ELSE JSONResponse]
    /\ UNCHANGED <<sanIn, sanOut, cIn, cOut, cOut2, hoOut, upload, pairs, cleaned, aIn, aFc, aOut,
                   bIn, bFc, bClean, bTrans, bAnal, tOut,
                   services, auditLog, qk,
                   gIn, gOut, chIn, chOut, csIn, csOut>>

\* step 1 of quick_analysis
QuickUpload ==
    /\ qk.pc = "parse"
    /\ qk' = With(process_upload(qk.file), LAMBDA out :
                 IF out.raised \/ out.pairs = <<>>
                 THEN [qk EXCEPT !.pc = "done",
                                 !.response = BadRequest("Error processing upload")]
                 ELSE [qk EXCEPT !.pc = "clean", !.pair_dataframes = out.pairs])
    /\ UNCHANGED <<sanIn, sanOut, cIn, cOut, cOut2, hoOut, upload, pairs, cleaned, aIn, aFc, aOut,
                   bIn, bFc, bClean, bTrans, bAnal, tOut,
                   services, auditLog, rq,
                   gIn, gOut, chIn, chOut, csIn, csOut>>

\* steps 2 to 5 of quick_analysis, which has no await between them
QuickRest ==
    /\ qk.pc = "clean"
    /\ qk' = QuickClean(qk)
    /\ services' = AfterCall(AfterCall(services, "data_cleaner", qk.pair_dataframes),
                             "analytics_service", qk.pair_dataframes)
    /\ UNCHANGED <<sanIn, sanOut, cIn, cOut, cOut2, hoOut, upload, pairs, cleaned, aIn, aFc, aOut,
                   bIn, bFc, bClean, bTrans, bAnal, tOut,
                   auditLog, rq,
                   gIn, gOut, chIn, chOut, csIn, csOut>>

RequestNext ==
    \/ ParseUpload
    \/ AuditChange
    \/ CleanData
    \/ TransformData
    \/ PerformAnalysis
    \/ Respond
    \/ QuickUpload
    \/ QuickRest

\* ------------------------------------------------------------ growth runs

\* the most rows of a frame handed to _calculate_growth_metrics: one more
\* than the longer window
MaxGrowthRows == 31

\* values at the ends of the windows: zero, a common value, the limit with
\* either sign (differences of them overflow), and a missing value
GrowthValues == {Fin(0), FInt(2), Fin(MaxValue), Fin(-MaxValue), NaN}

\* the rows of a frame of n rows the growth metrics read, but for the first
GrowthRows(n) == {n - 29, n - 6, n} \cap (1..n)

\* the frames of n rows: 1 everywhere, but for the rows the metrics read
GrowthFrames(n) ==
    {[i \in 1..n |-> Row(i, IF i \in GrowthRows(n) THEN sp[i] ELSE FInt(1))] :
        sp \in [GrowthRows(n) -> GrowthValues]}

GrowthPending == <<[key |-> "pending", val |-> None]>>

GrowthIdle ==
    /\ gIn = <<>>
    /\ gOut = GrowthPending

GrowthInit ==
    /\ \E n \in 1..MaxGrowthRows : gIn \in GrowthFrames(n)
    /\ gOut = GrowthPending

\* _calculate_growth_metrics(gIn)
CalculateGrowthMetrics ==
    /\ gOut = GrowthPending
    /\ gOut' = calculate_growth_metrics(gIn)
    /\ UNCHANGED <<sanIn, sanOut, cIn, cOut, cOut2, hoOut, upload, pairs, cleaned, aIn, aFc,
                   aOut, bIn, bFc, bClean, bTrans, bAnal, tOut, services, auditLog, rq, qk, gIn,
                   chIn, chOut, csIn, csOut>>

GrowthNext == CalculateGrowthMetrics

\* ------------------------------------------------------------ chart runs

MaxChartRows == 102
MaxPerDay == 3
ChartGaps == {"none", "nan", "inf", "all"}

\* a frame of n rows, perday rows on each day, with the gaps of the kind gap
ChartFrame(n, perday, gap, flat) ==
    [i \in 1..n |->
        Row((i - 1) \div perday + 1,
            CASE gap = "all" -> NaN
              [] gap = "nan" /\ i % 2 = 0 -> NaN
              [] gap = "inf" /\ i % 3 = 0 -> PInf
              [] OTHER -> IF flat THEN FInt(5) ELSE FInt(i % 7))]

ChartPending == <<[x |-> "pending", y |-> None]>>
ChartIdle == /\ chIn = <<>> /\ chOut = ChartPending
ChartInit ==
    /\ \E n \in (max_points - 2)..MaxChartRows, perday \in 1..MaxPerDay :
         \E gap \in ChartGaps, flat \in BOOLEAN : chIn = ChartFrame(n, perday, gap, flat)
    /\ chOut = ChartPending

PrepareTimeSeries ==
    /\ chOut = ChartPending
    /\ chOut' = prepare_time_series(chIn)
    /\ UNCHANGED <<sanIn, sanOut, cIn, cOut, cOut2, hoOut, upload, pairs, cleaned, aIn, aFc,
                   aOut, bIn, bFc, bClean, bTrans, bAnal, tOut, services, auditLog, rq, qk, gIn,
                   gOut, chIn, csIn, csOut>>

MaxCategories == 3
GrowthChoices == {None, Fin(-(Scale \div 2)), Fin(0), Fin(Scale), Fin(MaxValue)}

\* the results of the k-th category, as far as the chart reads them
CategoryResults(total_growth, strength) ==
    [growth_metrics |-> <<[key |-> "total_growth", val |-> total_growth]>>,
     trend_analysis |-> [strength |-> strength]]

\* n categories: each total growth from GrowthChoices, the k-th strength
\* either null or k eighths
StrengthInputs(n) ==
    {[k \in 1..n |->
        [key |-> CategoryPrefix \o CategoryNames[k],
         val |-> CategoryResults(g[k], IF s[k] THEN Fin(k * (Scale \div 8)) ELSE None)]] :
        g \in [1..n -> GrowthChoices], s \in [1..n -> BOOLEAN]}

StrengthPending == [present |-> FALSE, labels |-> <<"pending">>,
                    growth_rates |-> <<>>, trend_strengths |-> <<>>]
StrengthIdle == /\ csIn = <<>> /\ csOut = StrengthPending
StrengthInit ==
    /\ \E n \in 1..MaxCategories : csIn \in StrengthInputs(n)
    /\ csOut = StrengthPending

GenerateCategoryStrengthChart ==
    /\ csOut = StrengthPending
    /\ csOut' = generate_category_strength_chart(csIn)
    /\ UNCHANGED <<sanIn, sanOut, cIn, cOut, cOut2, hoOut, upload, pairs, cleaned, aIn, aFc,
                   aOut, bIn, bFc, bClean, bTrans, bAnal, tOut, services, auditLog, rq, qk, gIn,
                   gOut, chIn, chOut, csIn>>

ChartNext == PrepareTimeSeries
StrengthNext == GenerateCategoryStrengthChart

\* ------------------------------------------------------------ specifications

vars == <<sanIn, sanOut, cIn, cOut, cOut2, hoOut, upload, pairs, cleaned, aIn, aFc, aOut,
          bIn, bFc, bClean, bTrans, bAnal, tOut, services, auditLog, rq, qk,
          gIn, gOut, chIn, chOut, csIn, csOut>>

\* the sanitizers, each applied to each input
InitSan == SanInit /\ CleanIdle /\ UploadIdle /\ AnalyzeIdle /\ BatchIdle /\ RequestIdle
    /\ GrowthIdle /\ ChartIdle /\ StrengthIdle
SpecSan == InitSan /\ [][SanNext]_vars

\* the cleaner, applied to each frame
InitClean == CleanInit /\ SanIdle /\ UploadIdle /\ AnalyzeIdle /\ BatchIdle /\ RequestIdle
    /\ GrowthIdle /\ ChartIdle /\ StrengthIdle
SpecClean == InitClean /\ [][CleanNext]_vars

\* the parser and the cleaner, applied to each upload
InitUpload == UploadInit /\ SanIdle /\ CleanIdle /\ AnalyzeIdle /\ BatchIdle /\ RequestIdle
    /\ GrowthIdle /\ ChartIdle /\ StrengthIdle
SpecUpload == InitUpload /\ [][UploadNext]_vars

\* the statistics engine, applied to each frame
InitAnalyze == AnalyzeInit /\ SanIdle /\ CleanIdle /\ UploadIdle /\ BatchIdle /\ RequestIdle
    /\ GrowthIdle /\ ChartIdle /\ StrengthIdle
SpecAnalyze == InitAnalyze /\ [][AnalyzeNext]_vars

\* the three batch operations, each applied to each dictionary of frames
InitBatch == BatchInit /\ SanIdle /\ CleanIdle /\ UploadIdle /\ AnalyzeIdle /\ RequestIdle
    /\ GrowthIdle /\ ChartIdle /\ StrengthIdle
SpecBatch == InitBatch /\ [][BatchNext]_vars

\* an /analyze request and a /quick-analysis request on the same service
\* instances, their steps interleaved
InitRequest ==
    RequestInit /\ SanIdle /\ CleanIdle /\ UploadIdle /\ AnalyzeIdle /\ BatchIdle
    /\ GrowthIdle /\ ChartIdle /\ StrengthIdle
SpecRequest == InitRequest /\ [][RequestNext]_vars

\* the growth metrics, computed for each frame
InitGrowth ==
    GrowthInit /\ SanIdle /\ CleanIdle /\ UploadIdle /\ AnalyzeIdle /\ BatchIdle
    /\ RequestIdle /\ ChartIdle /\ StrengthIdle
SpecGrowth == InitGrowth /\ [][GrowthNext]_vars

\* the chart points, prepared for each frame
InitChart ==
    ChartInit /\ SanIdle /\ CleanIdle /\ UploadIdle /\ AnalyzeIdle /\ BatchIdle
    /\ RequestIdle /\ GrowthIdle /\ StrengthIdle
SpecChart == InitChart /\ [][ChartNext]_vars

\* the category strength chart, generated for each dictionary of results
InitStrength ==
    StrengthInit /\ SanIdle /\ CleanIdle /\ UploadIdle /\ AnalyzeIdle /\ BatchIdle
    /\ RequestIdle /\ GrowthIdle /\ ChartIdle
SpecStrength == InitStrength /\ [][StrengthNext]_vars

\* ------------------------------------------------------------ claims

\* what C2 says of a float: null for NaN, an infinity and a magnitude above
\* the limit, and otherwise the float itself
C2_ExpectedFloat(x) == IF IsFin(x) /\ Abs(x.v) <= MaxValue THEN x ELSE None

\* what C2 says of an input: null for an absent value and a value that is
\* no number, and otherwise what it says of the number
C2_Expected(value) ==
    CASE value.t = "float" -> C2_ExpectedFloat(AsFloat(value))
      [] value.t = "int" -> C2_ExpectedFloat(Fin(value.n))
      [] value.t = "str" /\ value.s \in NumericStrings -> C2_ExpectedFloat(ParseFloat(value.s))
      [] OTHER -> None

\* C2: _safe_numeric (statistics, transformer) returns null for an absent
\* value, a non-numeric value, NaN, +Infinity, -Infinity and any value with
\* |x| > 1e308, and otherwise the same finite float: 0, negative values and
\* |x| = 1e308 are returned, not nulled.
C2_SafeNumericMapping ==
    sanOut.by \in {"statistics", "transformer"}
        => /\ sanOut.raised = ""
           /\ sanOut.val = C2_Expected(sanIn)

\* C3: numeric sanitization never raises: for every input of any type each
\* of the sanitizers of transformer, statistics and exporter returns a float
\* or null, and no exception reaches the caller.
C3_NeverRaises ==
    sanOut.by \in {"transformer", "statistics", "exporter"}
        => sanOut.raised = ""

\* the fraction of missing values of cIn is above 0.3: 10 * missing > 3 * rows
C5_Sparse == 10 * Cardinality({i \in 1..Len(cIn) : cIn[i].value = NaN}) > 3 * Len(cIn)

\* C5: clean_pair rejects a frame (no cleaned frame, no metrics) when it has
\* fewer than 3 rows or more than 0.3 of its values, as uploaded and before
\* any imputation, are missing; 3 rows, or exactly 0.3 missing, are accepted.
C5_RejectsShortOrSparse ==
    cOut # CleanPending =>
        IF Len(cIn) < 3 \/ C5_Sparse
        THEN ~cOut.ok /\ cOut.df = <<>> /\ cOut.metrics = NoMetrics
        ELSE cOut.ok

\* a frame with exactly 0.3 of its values missing was cleaned
C5_Witness ==
    /\ Len(cIn) = 10
    /\ Cardinality({i \in 1..Len(cIn) : cIn[i].value = NaN}) = 3
    /\ cOut.ok

C7_Lo ==
    LET Q1 == Quantile(ValuesOf(cIn), Fin(Scale \div 4))
        Q3 == Quantile(ValuesOf(cIn), Fin(3 * (Scale \div 4)))
    IN  FSub(Q1, FDiv(FMul(FInt(3), FSub(Q3, Q1)), FInt(2)))
C7_Hi ==
    LET Q1 == Quantile(ValuesOf(cIn), Fin(Scale \div 4))
        Q3 == Quantile(ValuesOf(cIn), Fin(3 * (Scale \div 4)))
    IN  FAdd(Q3, FDiv(FMul(FInt(3), FSub(Q3, Q1)), FInt(2)))
C7_Outside(i) == FLt(cIn[i].value, C7_Lo) \/ FGt(cIn[i].value, C7_Hi)

\* C7: with lo = Q1 - 1.5 IQR and hi = Q3 + 1.5 IQR of the frame before
\* clipping, every value _handle_outliers returns lies in [lo, hi], a value
\* that was inside is unchanged, the rows are the same in number and date,
\* and outlier_count is the number of values that were strictly outside.
C7_IqrClipping ==
    hoOut # OutliersPending =>
        /\ Len(hoOut.df) = Len(cIn)
        /\ \A i \in 1..Len(cIn) :
            /\ hoOut.df[i].ts = cIn[i].ts
            /\ FLe(C7_Lo, hoOut.df[i].value) /\ FLe(hoOut.df[i].value, C7_Hi)
            /\ ~C7_Outside(i) => hoOut.df[i].value = cIn[i].value
        /\ hoOut.outlier_count = Cardinality({i \in 1..Len(cIn) : C7_Outside(i)})

\* C8 as stated: cleaning the cleaned frame again returns the same frame and
\* counts no missing value, no duplicate and no outlier.
C8_Idempotent ==
    cOut2 # CleanPending =>
        /\ cOut2.ok
        /\ cOut2.df = cOut.df
        /\ cOut2.metrics.missing_count = 0
        /\ cOut2.metrics.duplicate_count = 0
        /\ cOut2.metrics.outlier_count = 0

\* C8 as amended: a cleaned frame of fewer than 3 rows is rejected by a
\* second pass; otherwise the second pass keeps the rows and their dates,
\* counts no missing value and no duplicate, and changes exactly the values
\* it counts as outliers of the clipped frame (none changes if it counts 0).
C8_SecondPass ==
    cOut2 # CleanPending =>
        IF Len(cOut.df) < 3 THEN ~cOut2.ok
        ELSE /\ cOut2.ok
             /\ IndexOf(cOut2.df) = IndexOf(cOut.df)
             /\ cOut2.metrics.missing_count = 0
             /\ cOut2.metrics.duplicate_count = 0
             /\ cOut2.metrics.outlier_count =
                    Cardinality({i \in 1..Len(cOut.df) :
                                    cOut2.df[i].value # cOut.df[i].value})

\* a second pass that clipped again
C8_Witness ==
    /\ cOut2.ok
    /\ cOut2.metrics.outlier_count > 0
    /\ cOut.metrics.missing_count > 0

\* a numeric field of a result: null, or finite and within the limit
C1_Safe(x) == IsNone(x) \/ (IsFin(x) /\ Abs(x.v) <= MaxValue)
C1_AllSafe(s) == \A i \in 1..Len(s) : C1_Safe(s[i])

\* C1: every numeric field of the results of a successful analyze_pair
\* (statistics, slope, strength, trend values, growth metrics, forecast
\* predictions, bounds and error metrics) is null or a finite number of
\* magnitude at most 1e308, never NaN or an infinity.
C1_ResultsAreSafe ==
    aOut.ok =>
        LET r == aOut.results
        IN  /\ \A f \in DOMAIN r.basic_stats : C1_Safe(r.basic_stats[f])
            /\ C1_Safe(r.trend_analysis.slope)
            /\ C1_Safe(r.trend_analysis.strength)
            /\ C1_AllSafe(r.trend_analysis.trend_values)
            /\ \A i \in 1..Len(r.growth_metrics) : C1_Safe(r.growth_metrics[i].val)
            /\ C1_AllSafe(r.forecast.predictions)
            /\ C1_AllSafe(r.forecast.lower_bound)
            /\ C1_AllSafe(r.forecast.upper_bound)
            /\ \A f \in DOMAIN r.forecast.metrics : C1_Safe(r.forecast.metrics[f])

\* an analysis whose standard deviation overflowed and was nulled while its
\* mean is a number, with a forecast returned
C1_Witness ==
    /\ aOut.ok
    /\ IsNone(aOut.results.basic_stats.std)
    /\ IsFin(aOut.results.basic_stats.mean)
    /\ aOut.results.forecast.present

\* the rows of aIn whose value is finite and within the limit
C4_Valid == {i \in 1..Len(aIn) : IsFin(aIn[i].value) /\ Abs(aIn[i].value.v) <= MaxValue}

\* C4: analyze_pair fails with an insufficient-data error exactly when fewer
\* than 10 valid points remain after the sanitization of the value column.
C4_TenValidPoints ==
    aOut # AnalyzePending =>
        IF Cardinality(C4_Valid) < 10 THEN ~aOut.ok ELSE aOut.ok

\* the outcome of a single-series operation is what the batch stored under
\* the key of the frame, and a frame the operation fails on has no key
C6_Stored(out, key, ok, result) ==
    IF ok THEN key \in DictKeys(out) /\ DictGet(out, key) = result
    ELSE key \notin DictKeys(out)

C6_Keys(out) == DictKeys(out) \subseteq DictKeys(bIn) /\ Cardinality(DictKeys(out)) = Len(out)

\* C6: in clean_pairs, transform_pairs and analyze_pairs the output keys are
\* input keys, the output under a key is the result of the single-series
\* operation on the input under that key, whatever the other frames and the
\* order of the items, a frame the operation fails on is omitted while the
\* others are returned, and the quality metrics have the keys of the
\* cleaned frames.
C6_BatchIndependence ==
    /\ bClean # CleanBatchPending =>
        /\ C6_Keys(bClean.cleaned_pairs)
        /\ C6_Keys(bClean.quality_metrics)
        /\ DictKeys(bClean.quality_metrics) = DictKeys(bClean.cleaned_pairs)
        /\ \A i \in 1..Len(bIn) :
            With(clean_pair(bIn[i].val), LAMBDA r :
                /\ C6_Stored(bClean.cleaned_pairs, bIn[i].key, r.ok, r.df)
                /\ C6_Stored(bClean.quality_metrics, bIn[i].key, r.ok, r.metrics))
    /\ bTrans # TransformBatchPending =>
        /\ C6_Keys(bTrans.transformed_pairs)
        /\ \A i \in 1..Len(bIn) :
            With(transform_pair(bIn[i].val), LAMBDA r :
                C6_Stored(bTrans.transformed_pairs, bIn[i].key, r.ok, r.df))
    /\ bAnal # BatchPending =>
        /\ C6_Keys(bAnal)
        /\ \A i \in 1..Len(bIn) :
            With(analyze_pair(bIn[i].val, bFc), LAMBDA r :
                C6_Stored(bAnal, bIn[i].key, r.ok, r.results))

\* a batch of two frames whose first frame fails in every operation and
\* whose second frame is returned by every operation
C6_Witness ==
    /\ Len(bIn) = 2
    /\ bClean # CleanBatchPending /\ bTrans # TransformBatchPending /\ bAnal # BatchPending
    /\ DictKeys(bClean.cleaned_pairs) = {bIn[2].key}
    /\ DictKeys(bTrans.transformed_pairs) = {bIn[2].key}
    /\ DictKeys(bAnal) = {bIn[2].key}

\* the rows of the upload whose date parses, and their categories
C9_Retained == {i \in 1..Len(upload) : to_datetime(upload[i].date) # NaT}
C9_Categories == {upload[i].category : i \in C9_Retained}
C9_RowsOf(c) == {i \in C9_Retained : upload[i].category = c}

\* C9: the parser returns one series per distinct category of the rows whose
\* date parses, under the key category_<c>, and the series of c holds the
\* rows of category c whose date parsed, each once, with its date and value.
C9_OneSeriesPerCategory ==
    pairs # NotParsed =>
        /\ Len(pairs) = Cardinality(C9_Categories)
        /\ \A c \in C9_Categories :
            /\ CategoryKey(c) \in DictKeys(pairs)
            /\ LET series == DictGet(pairs, CategoryKey(c))
               IN  /\ Len(series) = Cardinality(C9_RowsOf(c))
                   /\ \A i \in C9_RowsOf(c) :
                        \E j \in 1..Len(series) :
                            series[j] = Row(to_datetime(upload[i].date), upload[i].value)

C10_Ascending(df) == \A i, j \in 1..Len(df) : i < j => df[i].ts <= df[j].ts

\* C10: whatever the order of the rows of the upload, every series the
\* parser returns is in ascending order of date, and every series the
\* cleaner returns has non-decreasing timestamps.
C10_SeriesOrdered ==
    /\ pairs # NotParsed => \A i \in 1..Len(pairs) : C10_Ascending(pairs[i].val)
    /\ cleaned # NotCleaned =>
        \A i \in 1..Len(cleaned.cleaned_pairs) : C10_Ascending(cleaned.cleaned_pairs[i].val)

\* the first and the last valid value of aIn
C11_First == aIn[CHOOSE i \in C4_Valid : \A j \in C4_Valid : i <= j].value

C11_Last == aIn[CHOOSE i \in C4_Valid : \A j \in C4_Valid : i >= j].value

\* (last - first) / first as the floats compute it, null when first is 0
C11_Quotient ==
    IF IsZero(C11_First) THEN None ELSE FDiv(FSub(C11_Last, C11_First), C11_First)

\* C11: the total_growth of an analyzed series and the growth_rate of a
\* transformed one equal (last - first) / first whenever first is not 0 and
\* both endpoints are finite, and are null when first is 0.
C11_TotalGrowth ==
    /\ (aOut # AnalyzePending /\ aOut.ok) =>
           DictGet(aOut.results.growth_metrics, "total_growth") = C11_Quotient
    /\ (tOut # TransformPending /\ tOut.ok) =>
           tOut.metrics.growth_rate = C11_Quotient

\* the forecast analyze_pair returned, if it returned one
C12_Returned == aOut # AnalyzePending /\ aOut.ok /\ aOut.results.forecast.present

\* step i of the forecast f lies 2 * std_error below its upper bound and
\* 2 * std_error above its lower bound
C12_Centered(f, i) ==
    /\ IsFin(f.predictions[i]) /\ IsFin(f.lower_bound[i]) /\ IsFin(f.upper_bound[i])
    /\ IsFin(f.metrics.std_error)
    /\ FSub(f.upper_bound[i], f.predictions[i]) = FMul(FInt(2), f.metrics.std_error)
    /\ FSub(f.predictions[i], f.lower_bound[i]) = FMul(FInt(2), f.metrics.std_error)
    /\ FLe(f.lower_bound[i], f.predictions[i])
    /\ FLe(f.predictions[i], f.upper_bound[i])

\* C12: a forecast analyze_pair returns has 30 predictions, 30 lower and 30
\* upper bounds, and at every step the bounds lie 2 * std_error below and
\* above the prediction, so that lower <= prediction <= upper.
C12_ForecastShape ==
    C12_Returned =>
        /\ Len(aOut.results.forecast.predictions) = forecast_days
        /\ Len(aOut.results.forecast.lower_bound) = forecast_days
        /\ Len(aOut.results.forecast.upper_bound) = forecast_days
        /\ \A i \in 1..forecast_days : C12_Centered(aOut.results.forecast, i)

\* C13: analyze_pair returns no forecast when include_forecast is false, when
\* the regression fails, or when the standard deviation of the residuals is
\* undefined; no forecast it returns has null bounds.
C13_ForecastOrNone ==
    (aOut # AnalyzePending /\ aOut.ok) =>
        /\ ~aFc => ~aOut.results.forecast.present
        /\ LinearRegressionFit(ValuesOf(SanitizedRows(aIn))).raised # "" =>
               ~aOut.results.forecast.present
        /\ aOut.results.forecast.present =>
               /\ ~IsNone(aOut.results.forecast.metrics.std_error)
               /\ \A i \in 1..Len(aOut.results.forecast.predictions) :
                      /\ ~IsNone(aOut.results.forecast.lower_bound[i])
                      /\ ~IsNone(aOut.results.forecast.upper_bound[i])

\* the trend analyze_pair reported
C19_Trend == aOut.results.trend_analysis

\* slope / mean of the analyzed values, where it is defined
C19_RelativeSlope ==
    IF IsNone(C19_Trend.slope) THEN None
    ELSE DataAnalytics_safe_division(C19_Trend.slope, Mean(ValuesOf(SanitizedRows(aIn))))

C20_Slope ==
    IF LinearRegressionFit(ValuesOf(tOut.df)).raised # "" THEN None
    ELSE TransSafe(LinearRegressionFit(ValuesOf(tOut.df)).coef)

\* C20: the trend_direction of the transformer is one of the four tags; it
\* is 'unknown' when the regression fails, else 'stable' exactly when
\* |growth_rate| < 0.05, and else 'increasing' or 'decreasing' by the sign
\* of the slope.
C20_TrendDirection ==
    (tOut # TransformPending /\ tOut.ok) =>
        /\ tOut.metrics.trend_direction \in {"stable", "increasing", "decreasing", "unknown"}
        /\ IsNone(C20_Slope) => tOut.metrics.trend_direction = "unknown"
        /\ ~IsNone(C20_Slope) =>
               /\ tOut.metrics.trend_direction = "stable" <=>
                      /\ ~IsNone(tOut.metrics.growth_rate)
                      /\ FLt(FAbs(tOut.metrics.growth_rate), growth_threshold)
               /\ tOut.metrics.trend_direction = "increasing" => FGt(C20_Slope, Fin(0))
               /\ tOut.metrics.trend_direction = "decreasing" => FLe(C20_Slope, Fin(0))

\* what the stages make of a file, each from what the stage before it made
C14_Pipeline(file, include_forecast) ==
    With(process_upload(file), LAMBDA parsed :
    With(clean_pairs(parsed.pairs), LAMBDA clean :
    With(transform_pairs(clean.cleaned_pairs), LAMBDA trans :
        [parsed |-> parsed, cleaned |-> clean, transformed |-> trans,
         analysis_results |-> analyze_pairs(trans.transformed_pairs, include_forecast)])))

\* what the stages the /analyze request has run left is what they make of
\* its file
C14_OwnInput(run) ==
    /\ "parse" \in Range(rq.stages) => rq.pair_dataframes = run.parsed.pairs
    /\ "clean" \in Range(rq.stages) => rq.cleaned = run.cleaned
    /\ "transform" \in Range(rq.stages) => rq.transformed = run.transformed
    /\ "analyze" \in Range(rq.stages) => rq.analysis_results = run.analysis_results

C15_Cleaned == ValuesOf(DictGet(rq.cleaned.cleaned_pairs, "category_A"))

\* the results of the analysis of category A
C15_Analysis == DictGet(rq.analysis_results, "category_A")

\* C15: of the file with category A and the values 10, 12, 11, 13, 14, 100,
\* 15, 16, 17, 18 on ten ascending dates the cleaner changes the 100 to the
\* upper IQR bound 23.5 and nothing else, with outlier_count 1; the analysis
\* reports the direction increasing and total_growth 0.8; a forecast that
\* was asked for has 30 predictions with non-null bounds at every step.
C15_Scenario ==
    (rq.file = ScenarioFile /\ rq.pc \in {"respond", "done"}) =>
        /\ C15_Cleaned = [i \in 1..Len(ScenarioValues) |->
                             IF i = 6 THEN Fin((47 * Scale) \div 2) ELSE ScenarioValues[i]]
        /\ OutlierBounds(FrameOf(ScenarioValues)).upper = Fin((47 * Scale) \div 2)
        /\ DictGet(rq.cleaned.quality_metrics, "category_A").outlier_count = 1
        /\ C15_Analysis.trend_analysis.direction = "increasing"
        /\ DictGet(C15_Analysis.growth_metrics, "total_growth") = Fin((4 * Scale) \div 5)
        /\ rq.include_forecast =>
               /\ C15_Analysis.forecast.present
               /\ Len(C15_Analysis.forecast.predictions) = 30
               /\ Len(C15_Analysis.forecast.lower_bound) = 30
               /\ Len(C15_Analysis.forecast.upper_bound) = 30
               /\ \A i \in 1..30 :
                      /\ ~IsNone(C15_Analysis.forecast.predictions[i])
                      /\ ~IsNone(C15_Analysis.forecast.lower_bound[i])
                      /\ ~IsNone(C15_Analysis.forecast.upper_bound[i])

\* the scenario was analyzed with a forecast and answered
C15_Witness ==
    /\ rq.file = ScenarioFile
    /\ rq.pc = "done"
    /\ rq.include_forecast
    /\ rq.response.status = 200

\* the file of the quick analysis has a row of the category asked for
C16_InUpload == \E i \in 1..Len(qk.file.rows) : qk.file.rows[i].category = CatStr(qk.category)

C16_NotFound == BadRequest("Category '" \o qk.category \o "' not found in data")

\* C16: a quick analysis with a category filter c fails with the
\* category-not-found error whenever the upload contains no category c, and
\* a result it returns has exactly the one key category_<c>.
C16_CategoryFilter ==
    (qk.pc = "done" /\ qk.category # "") =>
        /\ ~C16_InUpload => qk.response = C16_NotFound
        /\ qk.response.status = 200 => DictKeys(qk.results) = {"category_" \o qk.category}

\* the series the cleaner leaves of the file of the quick analysis
C16_CleanedKeys == DictKeys(clean_pairs(process_upload(qk.file).pairs).cleaned_pairs)

\* C16 as it holds: a quick analysis with a category filter c whose upload
\* is parsed and cleaned to at least one series fails with the
\* category-not-found error whenever none of the cleaned series is category
\* c, and a result it returns has exactly the one key category_<c>.
C16_FilterAfterCleaning ==
    (qk.pc = "done" /\ qk.category # "") =>
        /\ (C16_CleanedKeys # {} /\ ("category_" \o qk.category) \notin C16_CleanedKeys)
               => qk.response = C16_NotFound
        /\ (C16_CleanedKeys # {} /\ ~C16_InUpload) => qk.response = C16_NotFound
        /\ qk.response.status = 200 => DictKeys(qk.results) = {"category_" \o qk.category}

\* category B was asked for of a file that has the series A only
C16_Witness ==
    /\ qk.pc = "done"
    /\ qk.file = ScenarioFile
    /\ qk.category = "B"
    /\ qk.response = C16_NotFound

\* C17: a successful /analyze request with export_format csv or json is
\* answered with the export in that format and the attachment filename
\* analysis_export_<YYYYMMDD_HHMMSS>.<ext>, the extension being the format.
C17_ExportNamed ==
    (rq.pc = "done" /\ rq.response.status = 200 /\ rq.export_format \in {"csv", "json"}) =>
        /\ rq.response.body = rq.export_format \o " export"
        /\ rq.response.filename = "analysis_export_<YYYYMMDD_HHMMSS>." \o rq.export_format

\* the stages of /analyze in their order, and the message of the error of each
C18_Order == <<"parse", "clean", "transform", "analyze">>

C18_Message ==
    <<"Error processing upload", "Error cleaning data", "Error transforming data",
      "Error performing analysis">>

\* stage k of the run raises or leaves an empty mapping
C18_Fails(run, k) ==
    CASE k = 1 -> run.parsed.raised \/ run.parsed.pairs = <<>>
      [] k = 2 -> run.cleaned.cleaned_pairs = <<>>
      [] k = 3 -> run.transformed.transformed_pairs = <<>>
      [] k = 4 -> run.analysis_results = <<>>

\* the request has run the first k stages, ended with the error of stage k,
\* and has nothing of a later stage
C18_EndedAt(k) ==
    /\ rq.stages = SubSeq(C18_Order, 1, k)
    /\ rq.response = BadRequest(C18_Message[k])
    /\ k < 2 => rq.cleaned = NoCleaned
    /\ k < 3 => rq.transformed = NoTransformed
    /\ k < 4 => rq.analysis_results = <<>>

C18_Outcome(run) ==
    /\ \E k \in 0..Len(C18_Order) : rq.stages = SubSeq(C18_Order, 1, k)
    /\ rq.pc # "done" => rq.response = NoResponse
    /\ rq.pc = "done" =>
           IF \E k \in 1..Len(C18_Order) : C18_Fails(run, k)
           THEN C18_EndedAt(CHOOSE k \in 1..Len(C18_Order) :
                                /\ C18_Fails(run, k)
                                /\ \A j \in 1..(k - 1) : ~C18_Fails(run, j))
           ELSE rq.stages = C18_Order /\ rq.response.status = 200

\* C18: the stages of /analyze run in the order parse, clean, transform,
\* analyze; a stage that raises or leaves an empty mapping ends the request
\* with the HTTP 400 error of that stage, no later stage runs and nothing is
\* returned; a request of which one series passes every stage succeeds.
C18_StageOrder == C18_Outcome(C14_Pipeline(rq.file, rq.include_forecast))

\* the cleaner passed a series that the transformer rejected, and the
\* request ended there
C18_Witness ==
    /\ rq.pc = "done"
    /\ rq.stages = <<"parse", "clean", "transform">>
    /\ rq.response = BadRequest("Error transforming data")

\* the sanitized value w points before the end of gIn, and the last one
C21_Start(w) == StatSafe(gIn[Len(gIn) + 1 - w].value)

C21_End == StatSafe(gIn[Len(gIn)].value)

\* (v[n-1] - v[n-w]) / v[n-w] as the floats compute it, null when v[n-w] is
\* 0 or an endpoint is null
C21_Quotient(w) ==
    IF IsNone(C21_Start(w)) \/ IsNone(C21_End) THEN None
    ELSE IF IsZero(C21_Start(w)) THEN None
    ELSE FDiv(FSub(C21_End, C21_Start(w)), C21_Start(w))

\* the key of the window w is in the growth metrics exactly when the series
\* has at least w points
C21_Present ==
    gOut # GrowthPending =>
        \A k \in 1..Len(growth_windows) :
            (WindowKey(growth_windows[k]) \in DictKeys(gOut)) <=> (Len(gIn) >= growth_windows[k])

\* C21: for each window w of 7 and 30 and a series of n points the key
\* '<w>d_growth' is in the growth metrics if and only if n >= w, and then it
\* equals (v[n-1] - v[n-w]) / v[n-w], null when v[n-w] is 0 or an endpoint is
\* null; for n < w the key is absent.
C21_WindowGrowth ==
    gOut # GrowthPending =>
        \A k \in 1..Len(growth_windows) :
            LET w == growth_windows[k]
            IN  IF Len(gIn) >= w
                THEN /\ WindowKey(w) \in DictKeys(gOut)
                     /\ DictGet(gOut, WindowKey(w)) = C21_Quotient(w)
                ELSE WindowKey(w) \notin DictKeys(gOut)

\* the mean of the last min(i, w) values of the transformed series up to its
\* i-th row
C22_WindowMean(w, i) ==
    Mean(SubSeq(ValuesOf(tOut.df), IF i > w THEN i - w + 1 ELSE 1, i))

\* the column ma_<w>d of a row of the transformed series
C22_Column(row, w) == IF w = 7 THEN row.ma_7d ELSE row.ma_30d

C22_MetricKey(w) == IF w = 7 THEN "7d" ELSE "30d"

\* the column ma_<w>d is null in the first two rows and the window mean after
C22_Rolling(w) ==
    \A i \in 1..Len(tOut.df) :
        IF i < 3 THEN IsNull(C22_Column(tOut.df[i], w))
        ELSE C22_Column(tOut.df[i], w) = C22_WindowMean(w, i)

\* the metrics report the last value of the column ma_<w>d
C22_Reported(w) ==
    /\ C22_MetricKey(w) \in DictKeys(tOut.metrics.moving_average)
    /\ Stored(DictGet(tOut.metrics.moving_average, C22_MetricKey(w))) =
           C22_Column(tOut.df[Len(tOut.df)], w)

\* C22: for each window w of 7 and 30 the transformed series has a column
\* ma_<w>d that is null at the positions 0 and 1 and otherwise the mean of the
\* last min(i+1, w) values up to and including position i, and the metrics
\* report the value of that column at the last position.
C22_MovingAverages ==
    (tOut # TransformPending /\ tOut.ok) =>
        \A k \in 1..Len(ma_windows) :
            C22_Rolling(ma_windows[k]) /\ C22_Reported(ma_windows[k])

\* the rows of cIn that are the first of their timestamp
C23_Firsts == {i \in 1..Len(cIn) : \A j \in 1..(i - 1) : cIn[j].ts # cIn[i].ts}

\* the row of cIn the j-th row of the cleaned series comes from
C23_Source(j) ==
    CHOOSE i \in C23_Firsts : Cardinality({k \in C23_Firsts : k <= i}) = j

\* the rows of cIn before the row i, and all rows, that hold a value
C23_Earlier(i) == {k \in 1..(i - 1) : ~IsNull(cIn[k].value)}

C23_Present == {k \in 1..Len(cIn) : ~IsNull(cIn[k].value)}

\* the nearest present value before the gap at i, or the first present
\* value when the gap is a leading one
C23_Fill(i) ==
    IF C23_Earlier(i) # {}
    THEN cIn[CHOOSE k \in C23_Earlier(i) : \A m \in C23_Earlier(i) : m <= k].value
    ELSE cIn[CHOOSE k \in C23_Present : \A m \in C23_Present : k <= m].value

\* the series after imputation and duplicate removal, and its IQR bounds
C23_Filled ==
    [j \in 1..Cardinality(C23_Firsts) |->
        Row(cIn[C23_Source(j)].ts,
            IF C23_Source(j) \in C23_Present THEN cIn[C23_Source(j)].value
            ELSE C23_Fill(C23_Source(j)))]

C23_Bounds == OutlierBounds(C23_Filled)

C23_Outlier(x) == FLt(x, C23_Bounds.lower) \/ FGt(x, C23_Bounds.upper)

\* C23: imputation fills forward, then interpolates, then fills backward:
\* after clean_pair succeeds no value of the series is missing, every
\* originally present value that is not an outlier is unchanged, every gap
\* that has an earlier present value holds the nearest earlier present value,
\* and every leading gap holds the first present value.
C23_Imputation ==
    (cOut # CleanPending /\ cOut.ok) =>
        /\ Len(cOut.df) = Cardinality(C23_Firsts)
        /\ \A j \in 1..Len(cOut.df) :
            /\ ~IsNull(cOut.df[j].value)
            /\ (C23_Source(j) \in C23_Present /\ ~C23_Outlier(cIn[C23_Source(j)].value)) =>
                   cOut.df[j].value = cIn[C23_Source(j)].value
            /\ C23_Source(j) \notin C23_Present =>
                   cOut.df[j].value = C23_Fill(C23_Source(j))

\* x as the IQR bounds of the imputed series leave it
C23_Clipped(x) ==
    IF FLt(x, C23_Bounds.lower) THEN C23_Bounds.lower
    ELSE IF FGt(x, C23_Bounds.upper) THEN C23_Bounds.upper
    ELSE x

\* after clean_pair succeeds no value is missing, a present value that is
\* not an outlier is unchanged, and a gap holds the nearest earlier present
\* value, a leading gap the first present value, clipped to the IQR bounds of
\* the imputed series like any other value
C23_ImputedThenClipped ==
    (cOut # CleanPending /\ cOut.ok) =>
        /\ Len(cOut.df) = Cardinality(C23_Firsts)
        /\ \A j \in 1..Len(cOut.df) :
            /\ ~IsNull(cOut.df[j].value)
            /\ (C23_Source(j) \in C23_Present /\ ~C23_Outlier(cIn[C23_Source(j)].value)) =>
                   cOut.df[j].value = cIn[C23_Source(j)].value
            /\ C23_Source(j) \notin C23_Present =>
                   cOut.df[j].value = C23_Clipped(C23_Fill(C23_Source(j)))

\* a cleaned series with a gap after an outlier: the gap holds the bound the
\* outlier was clipped to
C23_Witness ==
    /\ cOut # CleanPending /\ cOut.ok
    /\ \E j \in 1..Len(cOut.df) :
        /\ C23_Source(j) \notin C23_Present
        /\ C23_Earlier(C23_Source(j)) # {}
        /\ C23_Outlier(C23_Fill(C23_Source(j)))
        /\ cOut.df[j].value # C23_Fill(C23_Source(j))

\* C24: after clean_pair succeeds the timestamps of the series are pairwise
\* distinct, the row kept for each timestamp is its first occurrence in input
\* order, duplicate_count is the number of rows removed, and clean_records =
\* total_records - duplicate_count.
C24_DuplicateRemoval ==
    (cOut # CleanPending /\ cOut.ok) =>
        /\ \A i, j \in 1..Len(cOut.df) : i # j => cOut.df[i].ts # cOut.df[j].ts
        /\ Len(cOut.df) = Cardinality(C23_Firsts)
        /\ \A j \in 1..Len(cOut.df) :
            /\ cOut.df[j].ts = cIn[C23_Source(j)].ts
            /\ cOut.df[j].value = C23_Clipped(C23_Filled[j].value)
        /\ cOut.metrics.total_records = Len(cIn)
        /\ cOut.metrics.duplicate_count = Len(cIn) - Len(cOut.df)
        /\ cOut.metrics.clean_records =
               cOut.metrics.total_records - cOut.metrics.duplicate_count

\* a cleaned series from which a duplicate was removed whose value differs
\* from the value of the first row of its timestamp
C24_Witness ==
    /\ cOut # CleanPending /\ cOut.ok
    /\ cOut.metrics.duplicate_count > 0
    /\ \E i, j \in 1..Len(cIn) :
        /\ i < j /\ cIn[i].ts = cIn[j].ts /\ i \in C23_Firsts
        /\ ~IsNull(cIn[i].value) /\ ~IsNull(cIn[j].value)
        /\ cIn[i].value # cIn[j].value

\* C26: the std of basic_stats is the population standard deviation of the
\* series values: the square root of the sum of the squared deviations from
\* the mean over n, not over n - 1.
C26_PopulationStd ==
    (aOut # AnalyzePending /\ aOut.ok) =>
        aOut.results.basic_stats.std = StatSafe(Std(ValuesOf(SanitizedRows(aIn)), 0))

\* the outcomes of the four sanitizers on sanIn
C29_Outcomes ==
    {DataTransformer_safe_numeric(sanIn), DataAnalytics_safe_numeric(sanIn),
     DataExporter_safe_numeric(sanIn), ChartGenerator_sanitize_float(sanIn)}

\* C29: the four sanitizers are equivalent: on every input value, of every
\* type, all four produce the same outcome, the same float or null.
C29_Equivalent ==
    sanOut # Pending =>
        \A r \in C29_Outcomes :
            /\ r.raised = "" /\ sanOut.raised = ""
            /\ r.val = sanOut.val

\* the points of the rows of df whose sanitized value is not null
C25_Points(df) ==
    AtPositions([i \in 1..Len(df) |-> [x |-> isoformat(df[i].ts), y |-> df[i].value]],
                {i \in 1..Len(df) : ~IsNone(ChartSafe(df[i].value))})

\* the days of chIn that hold a value that is not null, in ascending order
C25_Days == {chIn[i].ts : i \in {k \in 1..Len(chIn) : ~IsNone(ChartSafe(chIn[k].value))}}

\* the mean of the values of the day d that are not null
C25_DayMean(d) ==
    Mean(AtPositions(ValuesOf(chIn),
                     {k \in 1..Len(chIn) : chIn[k].ts = d /\ ~IsNone(ChartSafe(chIn[k].value))}))

\* C25: the point list _prepare_time_series returns has at most 100 points; a
\* series of more than 100 rows is reduced to the daily means, a series of at
\* most 100 rows is emitted point for point without its null values.
C25_PayloadBound ==
    chOut # ChartPending =>
        /\ Len(chOut) <= max_points
        /\ Len(chIn) <= max_points => chOut = C25_Points(chIn)
        /\ Len(chIn) > max_points =>
            /\ {chOut[j].x : j \in 1..Len(chOut)} = {isoformat(d) : d \in C25_Days}
            /\ Len(chOut) = Cardinality(C25_Days)
            /\ \A j \in 1..Len(chOut) : chOut[j].y = C25_DayMean(chOut[j].x.date)

\* the two shapes hold without the bound on the number of points
C25_Shapes ==
    chOut # ChartPending =>
        /\ Len(chIn) <= max_points => chOut = C25_Points(chIn)
        /\ Len(chIn) > max_points =>
            /\ {chOut[j].x : j \in 1..Len(chOut)} = {isoformat(d) : d \in C25_Days}
            /\ Len(chOut) = Cardinality(C25_Days)
            /\ \A j \in 1..Len(chOut) : chOut[j].y = C25_DayMean(chOut[j].x.date)

\* the results of the category with the label l
C27_Results(l) == DictGet(csIn, CategoryPrefix \o l)

\* the growth rate and the trend strength, in percent, the chart shows for
\* the results r
C27_Growth(r) == ChartSafe(FMul(DictGet(r.growth_metrics, "total_growth"), FInt(100)))

C27_Strength(r) == ChartSafe(FMul(r.trend_analysis.strength, FInt(100)))

\* the labels of the categories whose two percentages are not null
C27_Included ==
    {StripPrefix(csIn[k].key) : k \in {i \in 1..Len(csIn) :
        /\ ~IsNone(DictGet(csIn[i].val.growth_metrics, "total_growth"))
        /\ ~IsNone(csIn[i].val.trend_analysis.strength)
        /\ ~IsNone(C27_Growth(csIn[i].val))
        /\ ~IsNone(C27_Strength(csIn[i].val))}}

\* C27: in the category strength chart the labels are ordered by
\* non-increasing growth rate, and the labels, the growth rates and the trend
\* strengths are the same permutation of the included categories: position i
\* of the three lists refers to the same category.
C27_SortedTogether ==
    (csOut # StrengthPending /\ csOut.present) =>
        /\ Len(csOut.growth_rates) = Len(csOut.labels)
        /\ Len(csOut.trend_strengths) = Len(csOut.labels)
        /\ {csOut.labels[i] : i \in 1..Len(csOut.labels)} = C27_Included
        /\ Cardinality(C27_Included) = Len(csOut.labels)
        /\ \A i \in 1..Len(csOut.labels) :
            /\ csOut.growth_rates[i] = C27_Growth(C27_Results(csOut.labels[i]))
            /\ csOut.trend_strengths[i] = C27_Strength(C27_Results(csOut.labels[i]))
            /\ i > 1 => FLe(csOut.growth_rates[i], csOut.growth_rates[i - 1])

\* a chart of three categories whose order is not the order of the results
C27_Witness ==
    /\ csOut # StrengthPending /\ csOut.present
    /\ Len(csOut.labels) = 3
    /\ csOut.labels[1] # StripPrefix(csIn[1].key)
    /\ FLt(csOut.growth_rates[3], csOut.growth_rates[1])

\* the labels of the categories whose total_growth and strength are not null
C30_NonNull ==
    {StripPrefix(csIn[k].key) : k \in {i \in 1..Len(csIn) :
        /\ ~IsNone(DictGet(csIn[i].val.growth_metrics, "total_growth"))
        /\ ~IsNone(csIn[i].val.trend_analysis.strength)}}

\* C30: when at least one category has a total_growth and a trend strength
\* that are not null, generate_category_strength_chart returns a chart of
\* exactly those categories; a category with a null total_growth or strength
\* is skipped and the chart is not dropped.
C30_NullTolerance ==
    (csOut # StrengthPending /\ C30_NonNull # {}) =>
        /\ csOut.present
        /\ {csOut.labels[i] : i \in 1..Len(csOut.labels)} = C30_NonNull

====
